---- MODULE Spec2Model ----
(***************************************************************************)
(* Cart/catalog engine of the e-commerce Telegram bot                      *)
(* (src/ecommerce_telegram_bot.py): CartItem, ShoppingCart,                *)
(* ShoppingCartDemo, the catalog of EcommerceDemo (products, categories,   *)
(* browse_products and its result pages) and the cart, product, checkout   *)
(* and payment handlers of EcommerceTelegramBot.                           *)
(*                                                                         *)
(* Conventions.  An optional Python value (x | None) is a sequence of      *)
(* length at most one: None is <<>> and the value x is <<x>>.  A Decimal   *)
(* amount is an integer number of hundredths.  A float discount d is the   *)
(* integer 100 * d.  Python lists are 0-based, TLA+ sequences 1-based.     *)
(* A text that is searched is a sequence of one-character strings; a text  *)
(* that is only copied or shown is a string.                               *)
(***************************************************************************)
EXTENDS Integers, Sequences, FiniteSets, TLC

VARIABLES
    user_items,  \* ShoppingCartDemo.user_items: telegram_user_id -> list of CartItem
    products,    \* EcommerceDemo._products
    running,     \* the handler suspended at an await, if any (updates are handled one at a time)
    chat,        \* per user, the last message the bot delivered
    last,        \* the last operation: its arguments, its result, the lines before it
    net,         \* per line key, the running sum of the add_product/remove_product calls
    user_data,   \* context.user_data: per user, the dictionary the handlers keep
    invoice,     \* per user, the prices of the last invoice sent with send_invoice
    conversations, \* per ConversationHandler, the keys that are in its waiting state
    checkout,    \* per user, the checkout steps passed since the cart was last cleared by a payment
    tasks,       \* the cart operations started together and not yet finished
    buttons,     \* the messages with the buttons of a cart line that are in the chat
    handles,     \* the ShoppingCartDemo objects that are alive, each with the list its _items names
    requested    \* the carts pay_now was triggered for, where the invoices are followed

session_vars == <<conversations, checkout, tasks, buttons, handles, requested>>

vars == <<user_items, products, running, chat, last, net, user_data, invoice,
          conversations, checkout, tasks, buttons, handles, requested>>

(***************************************************************************)
(* Bounds                                                                  *)
(***************************************************************************)
MaxQty == 3     \* largest quantity of a line, and of one call
MaxLines == 2   \* largest number of lines of a cart

MaxInvoices == 2   \* largest number of pay_now requests that are followed

\* no invoice is followed
NotFollowed == [followed |-> FALSE, carts |-> <<>>]

None == <<>>
Some(x) == <<x>>

Users == {1}
Quantities == 1 .. MaxQty

\* context.user_data of a user who has done nothing yet
NoUserData == [prices |-> None, category_id |-> None]

\* the waiting states of the three ConversationHandlers: the handlers of
\* start_search and start_search_in_category are registered with
\* per_message=True and keep a state per (user, message of the button), the
\* handler of /recommendations keeps one per user
NoConversations ==
    [search |-> {}, search_in_category |-> {}, recommendations |-> {}]

NoCheckout == [invoice_issued |-> FALSE, validated |-> FALSE, settled |-> FALSE]

(***************************************************************************)
(* Catalog                                                                 *)
(***************************************************************************)
ProductVariant(id, title, stock) == [id |-> id, title |-> title, stock |-> stock]

Product(id, name, category_id, price, stock, description, discount, variants) ==
    [id |-> id, name |-> name, category_id |-> category_id, price |-> price,
     stock |-> stock, description |-> description, discount |-> discount,
     variants |-> variants]

\* an instance of what _generate_demo_data builds: product ids are list
\* positions, variant ids are numbered across products, the stock of a product
\* with variants is the sum of theirs, no discount
DemoProducts ==
    << Product(0, "Product 0", 0, 1000, 5, Some("This is product 0."), None, None),
       Product(1, "Product 1", 0, 2500, 4, Some("This is product 1."), None,
               Some(<< ProductVariant(0, "Variant 0", 3),
                       ProductVariant(1, "Variant 1", 1) >>)) >>

IndexError == [raised |-> "IndexError"]

\* self._products[product_id]: Python list indexing, negative indices count
\* from the end, anything else raises IndexError
get_product(prods, product_id) ==
    IF product_id >= 0 /\ product_id < Len(prods)
    THEN prods[product_id + 1]
    ELSE IF product_id < 0 /\ 0 - product_id <= Len(prods)
         THEN prods[Len(prods) + product_id + 1]
         ELSE IndexError

RECURSIVE title_of(_, _)
title_of(variants, variant_id) ==
    IF variants = <<>> THEN None
    ELSE IF Head(variants).id = variant_id THEN Some(Head(variants).title)
         ELSE title_of(Tail(variants), variant_id)

get_variant_title(product, variant_id) ==
    IF product.variants = None \/ product.variants = Some(<<>>)
    THEN None
    ELSE title_of(product.variants[1], variant_id)

(***************************************************************************)
(* Cart engine                                                             *)
(***************************************************************************)
CartItem(product_id, name, unit_price, quantity, discount, variant_id, variant_title) ==
    [product_id |-> product_id, name |-> name, unit_price |-> unit_price,
     quantity |-> quantity, discount |-> discount, variant_id |-> variant_id,
     variant_title |-> variant_title]

\* as _find_item_by_product_id, with a call without variant id matching no line
find_item_unless_no_variant(items, product_id, variant_id) ==
    LET hits == {i \in 1 .. Len(items) :
                    /\ items[i].product_id = product_id
                    /\ variant_id # None
                    /\ items[i].variant_id = variant_id}
    IN IF hits = {} THEN 0 ELSE CHOOSE i \in hits : \A j \in hits : i <= j

\* index of the first line with this product id and variant id, 0 when none
_find_item_by_product_id(items, product_id, variant_id) ==
    LET hits == {i \in 1 .. Len(items) :
                    /\ items[i].product_id = product_id
                    /\ items[i].variant_id = variant_id}
    IN IF hits = {} THEN 0 ELSE CHOOSE i \in hits : \A j \in hits : i <= j

RetItem(item) == [kind |-> "item", item |-> Some(item)]
RetNone == [kind |-> "None", item |-> None]
RetFalse == [kind |-> "False", item |-> None]
RetTrue == [kind |-> "True", item |-> None]
RetRaised == [kind |-> "IndexError", item |-> None]

DeleteAt(items, i) ==
    [j \in 1 .. Len(items) - 1 |-> IF j < i THEN items[j] ELSE items[j + 1]]

NewLine(prods, product_id, variant_id, quantity) ==
    LET product == get_product(prods, product_id)
    IN CartItem(product_id, product.name, product.price, quantity,
                product.discount, variant_id,
                IF variant_id = None THEN None
                ELSE get_variant_title(product, variant_id[1]))

\* as add_product, with a merge storing the quantity of the call
add_product_overwriting(items, prods, product_id, variant_id, quantity) ==
    LET i == _find_item_by_product_id(items, product_id, variant_id)
    IN IF i # 0
       THEN LET item == [items[i] EXCEPT !.quantity = quantity]
            IN [items |-> [items EXCEPT ![i] = item], ret |-> RetItem(item)]
       ELSE IF get_product(prods, product_id) = IndexError
            THEN [items |-> items, ret |-> RetRaised]
            ELSE LET item == NewLine(prods, product_id, variant_id, quantity)
                 IN [items |-> Append(items, item), ret |-> RetItem(item)]

\* as add_product, with a merge reading price and discount from the catalog again
add_product_repricing(items, prods, product_id, variant_id, quantity) ==
    LET i == _find_item_by_product_id(items, product_id, variant_id)
    IN IF get_product(prods, product_id) = IndexError
       THEN [items |-> items, ret |-> RetRaised]
       ELSE IF i # 0
            THEN LET product == get_product(prods, product_id)
                     item == [items[i] EXCEPT !.quantity = @ + quantity,
                                              !.unit_price = product.price,
                                              !.discount = product.discount]
                 IN [items |-> [items EXCEPT ![i] = item], ret |-> RetItem(item)]
            ELSE LET item == NewLine(prods, product_id, variant_id, quantity)
                 IN [items |-> Append(items, item), ret |-> RetItem(item)]

\* as add_product, with the new line put in front of the list
add_product_in_front(items, prods, product_id, variant_id, quantity) ==
    LET i == _find_item_by_product_id(items, product_id, variant_id)
    IN IF i # 0
       THEN LET item == [items[i] EXCEPT !.quantity = @ + quantity]
            IN [items |-> [items EXCEPT ![i] = item], ret |-> RetItem(item)]
       ELSE IF get_product(prods, product_id) = IndexError
            THEN [items |-> items, ret |-> RetRaised]
            ELSE LET item == NewLine(prods, product_id, variant_id, quantity)
                 IN [items |-> <<item>> \o items, ret |-> RetItem(item)]

add_product(items, prods, product_id, variant_id, quantity) ==
    LET i == _find_item_by_product_id(items, product_id, variant_id)
    IN IF i # 0
       THEN LET item == [items[i] EXCEPT !.quantity = @ + quantity]
            IN [items |-> [items EXCEPT ![i] = item], ret |-> RetItem(item)]
       ELSE IF get_product(prods, product_id) = IndexError
            THEN [items |-> items, ret |-> RetRaised]
            ELSE LET item == NewLine(prods, product_id, variant_id, quantity)
                 IN [items |-> Append(items, item), ret |-> RetItem(item)]

\* as remove_product, with < where the line is compared with the quantity
remove_product_strict(items, product_id, variant_id, quantity) ==
    LET i == _find_item_by_product_id(items, product_id, variant_id)
    IN IF i # 0
       THEN IF items[i].quantity < quantity
            THEN [items |-> DeleteAt(items, i), ret |-> RetNone]
            ELSE LET item == [items[i] EXCEPT !.quantity = @ - quantity]
                 IN [items |-> [items EXCEPT ![i] = item],
                     ret |-> IF item.quantity # 0 THEN RetItem(item) ELSE RetNone]
       ELSE [items |-> items, ret |-> RetFalse]

\* as remove_product, taking one unit whatever quantity is asked
remove_product_by_one(items, product_id, variant_id, quantity) ==
    LET i == _find_item_by_product_id(items, product_id, variant_id)
    IN IF i # 0
       THEN IF items[i].quantity <= quantity
            THEN [items |-> DeleteAt(items, i), ret |-> RetNone]
            ELSE LET item == [items[i] EXCEPT !.quantity = @ - 1]
                 IN [items |-> [items EXCEPT ![i] = item],
                     ret |-> IF item.quantity # 0 THEN RetItem(item) ELSE RetNone]
       ELSE [items |-> items, ret |-> RetFalse]

\* as remove_product, with a line that is decremented and never deleted
remove_product_to_zero(items, product_id, variant_id, quantity) ==
    LET i == _find_item_by_product_id(items, product_id, variant_id)
    IN IF i # 0
       THEN LET item == [items[i] EXCEPT !.quantity =
                                   IF @ <= quantity THEN 0 ELSE @ - quantity]
            IN [items |-> [items EXCEPT ![i] = item],
                ret |-> IF item.quantity # 0 THEN RetItem(item) ELSE RetNone]
       ELSE [items |-> items, ret |-> RetFalse]

remove_product(items, product_id, variant_id, quantity) ==
    LET i == _find_item_by_product_id(items, product_id, variant_id)
    IN IF i # 0
       THEN IF items[i].quantity <= quantity
            THEN [items |-> DeleteAt(items, i), ret |-> RetNone]
            ELSE LET item == [items[i] EXCEPT !.quantity = @ - quantity]
                 IN [items |-> [items EXCEPT ![i] = item],
                     ret |-> IF item.quantity # 0 THEN RetItem(item) ELSE RetNone]
       ELSE [items |-> items, ret |-> RetFalse]

\* as remove_item, looking the line up by product id alone
remove_item_of_product(items, product_id, variant_id) ==
    LET hits == {i \in 1 .. Len(items) : items[i].product_id = product_id}
    IN IF hits # {}
       THEN [items |-> DeleteAt(items, CHOOSE i \in hits : \A j \in hits : i <= j),
             ret |-> RetTrue]
       ELSE [items |-> items, ret |-> RetFalse]

remove_item(items, product_id, variant_id) ==
    LET i == _find_item_by_product_id(items, product_id, variant_id)
    IN IF i # 0
       THEN [items |-> DeleteAt(items, i), ret |-> RetTrue]
       ELSE [items |-> items, ret |-> RetFalse]

\* self._items = []: the handle is rebound to a new list, the list stored in
\* user_items is not touched
clear(items) == [items |-> items, handle_items |-> <<>>]

get_items(items) == items

get_num_items(items) == Len(items)

RECURSIVE SumQuantity(_)
SumQuantity(items) ==
    IF items = <<>> THEN 0 ELSE Head(items).quantity + SumQuantity(Tail(items))

get_num_products(items) == SumQuantity(get_items(items))

\* Decimal * float is no operation of Decimal: the multiplication by
\* (1 - item.discount) raises TypeError for every float discount that is not 0.0
Amount(value) == [raised |-> "none", value |-> value]
TypeError == [raised |-> "TypeError", value |-> 0]

calculate_item_total(item) ==
    LET item_total == item.quantity * item.unit_price
    IN IF item.discount # None /\ item.discount # Some(0)
       THEN TypeError
       ELSE Amount(item_total)

RECURSIVE SumTotals(_, _)
SumTotals(items, total) ==
    IF items = <<>> THEN Amount(total)
    ELSE LET item_total == calculate_item_total(Head(items))
         IN IF item_total.raised # "none" THEN item_total
            ELSE SumTotals(Tail(items), total + item_total.value)

calculate_total(items) == SumTotals(get_items(items), 0)

has_product_by_id(items, product_id) ==
    _find_item_by_product_id(items, product_id, None) # 0

\* has(product) and has(product_id) both end in has_product_by_id
has(items, product_id) == has_product_by_id(items, product_id)

(***************************************************************************)
(* get_cart and the operations, one action per call                        *)
(***************************************************************************)
\* ShoppingCartDemo.__init__: setdefault(telegram_user_id, [])
get_cart(store, u) ==
    IF u \in DOMAIN store THEN store
    ELSE [w \in DOMAIN store \cup {u} |-> IF w = u THEN <<>> ELSE store[w]]

\* the (product_id, variant_id) pairs the calls are made with: a product
\* without variants, two variants of one product, and product 2, which does
\* not exist
LineKeys == { <<0, None>>, <<1, Some(0)>>, <<1, Some(1)>>, <<2, None>> }

Idle == running = None

Op(op, u, product_id, variant_id, quantity, ret, before, handle_items) ==
    [op |-> op, user |-> u, product_id |-> product_id, variant_id |-> variant_id,
     quantity |-> quantity, ret |-> ret, before |-> before,
     handle_items |-> handle_items]

Init ==
    /\ user_items = [u \in {} |-> <<>>]
    /\ products = DemoProducts
    /\ running = None
    /\ chat = [u \in Users |-> "none"]
    /\ last = Op("init", 0, 0, None, 0, RetNone, <<>>, <<>>)
    /\ net = [k \in Users \X LineKeys |-> Some(0)]
    /\ user_data = [u \in Users |-> NoUserData]
    /\ invoice = [u \in Users |-> None]
    /\ conversations = NoConversations
    /\ checkout = [u \in Users |-> NoCheckout]
    /\ tasks = <<>>
    /\ buttons = {}
    /\ handles = <<>>
    /\ requested = NotFollowed

Floor0(n) == IF n < 0 THEN 0 ELSE n

AddProduct(u, product_id, variant_id, quantity) ==
    LET store == get_cart(user_items, u)
        r == add_product(store[u], products, product_id, variant_id, quantity)
        k == <<u, <<product_id, variant_id>>>>
    IN /\ Idle
       /\ Len(r.items) <= MaxLines
       /\ \A i \in 1 .. Len(r.items) : r.items[i].quantity <= MaxQty
       /\ user_items' = [store EXCEPT ![u] = r.items]
       /\ last' = Op("add_product", u, product_id, variant_id, quantity, r.ret,
                     store[u], r.items)
       /\ net' = IF k \in DOMAIN net /\ net[k] # None /\ r.ret.kind = "item"
                 THEN [net EXCEPT ![k] = Some(@[1] + quantity)] ELSE net
       /\ UNCHANGED <<products, running, chat, user_data, invoice, session_vars>>

RemoveProduct(u, product_id, variant_id, quantity) ==
    LET store == get_cart(user_items, u)
        r == remove_product(store[u], product_id, variant_id, quantity)
        k == <<u, <<product_id, variant_id>>>>
    IN /\ Idle
       /\ user_items' = [store EXCEPT ![u] = r.items]
       /\ last' = Op("remove_product", u, product_id, variant_id, quantity, r.ret,
                     store[u], r.items)
       /\ net' = IF k \in DOMAIN net /\ net[k] # None
                 THEN [net EXCEPT ![k] = Some(Floor0(@[1] - quantity))] ELSE net
       /\ UNCHANGED <<products, running, chat, user_data, invoice, session_vars>>

\* remove_item is no part of an add/remove sequence: it leaves the line absent,
\* and the key's sum starts again from there
\* a remove_item whose handler ends the exchanges the user has pending
RemoveItem_ending_conversations(u, product_id, variant_id) ==
    LET store == get_cart(user_items, u)
        r == remove_item(store[u], product_id, variant_id)
    IN /\ Idle
       /\ user_items' = [store EXCEPT ![u] = r.items]
       /\ last' = Op("remove_item", u, product_id, variant_id, 0, r.ret,
                     store[u], r.items)
       /\ conversations' = NoConversations
       /\ UNCHANGED <<products, running, chat, net, user_data, invoice, checkout,
                      tasks, buttons, handles,
                   requested>>

RemoveItem(u, product_id, variant_id) ==
    LET store == get_cart(user_items, u)
        r == remove_item(store[u], product_id, variant_id)
        k == <<u, <<product_id, variant_id>>>>
    IN /\ Idle
       /\ user_items' = [store EXCEPT ![u] = r.items]
       /\ last' = Op("remove_item", u, product_id, variant_id, 0, r.ret,
                     store[u], r.items)
       /\ net' = IF k \in DOMAIN net /\ net[k] # None
                 THEN [net EXCEPT ![k] = Some(0)] ELSE net
       /\ UNCHANGED <<products, running, chat, user_data, invoice, session_vars>>

\* clear is no part of an add/remove sequence: the user's sums are dropped
Untracked(u) == [k \in DOMAIN net |-> IF k[1] = u THEN None ELSE net[k]]

\* a clear that empties the dictionary of all the users
Clear_of_every_user(u) ==
    LET store == get_cart(user_items, u)
    IN /\ Idle
       /\ user_items' = [w \in DOMAIN store |-> <<>>]
       /\ last' = Op("clear", u, 0, None, 0, RetNone, store[u], <<>>)
       /\ net' = Untracked(u)
       /\ UNCHANGED <<products, running, chat, user_data, invoice, session_vars>>

Clear(u) ==
    LET store == get_cart(user_items, u)
        r == clear(store[u])
    IN /\ Idle
       /\ user_items' = [store EXCEPT ![u] = r.items]
       /\ last' = Op("clear", u, 0, None, 0, RetNone, store[u], r.handle_items)
       /\ net' = Untracked(u)
       /\ UNCHANGED <<products, running, chat, user_data, invoice, session_vars>>

(***************************************************************************)
(* _successful_payment: reply, then get_cart, clear and the main menu      *)
(***************************************************************************)
PaymentSuccessfulText == "Payment successful! Thank you for your purchase."
MainMenuText == "Main Menu"

\* await update.message.reply_text(...): the acknowledgment is delivered and
\* the handler is suspended before it touches the cart
SuccessfulPaymentReply(u) ==
    LET store == user_items
        items == IF u \in DOMAIN store THEN store[u] ELSE <<>>
    IN /\ Idle
       /\ chat' = [chat EXCEPT ![u] = PaymentSuccessfulText]
       /\ running' = Some([handler |-> "_successful_payment", user |-> u])
       /\ last' = Op("successful_payment_reply", u, 0, None, 0, RetNone, items, items)
       /\ checkout' = [checkout EXCEPT ![u].settled = checkout[u].validated]
       /\ UNCHANGED <<user_items, products, net, user_data, invoice, conversations,
                      tasks, buttons, handles,
                   requested>>

SuccessfulPaymentClear(u) ==
    LET store == get_cart(user_items, u)
        r == clear(store[u])
    IN /\ running = Some([handler |-> "_successful_payment", user |-> u])
       /\ user_items' = [store EXCEPT ![u] = r.items]
       /\ chat' = [chat EXCEPT ![u] = MainMenuText]
       /\ running' = None
       /\ last' = Op("successful_payment", u, 0, None, 0, RetNone, store[u],
                     r.handle_items)
       /\ net' = Untracked(u)
       /\ checkout' = [checkout EXCEPT ![u] = NoCheckout]
       /\ UNCHANGED <<products, user_data, invoice, conversations, tasks, buttons, handles,
                   requested>>

Next ==
    \/ \E u \in Users, k \in LineKeys, q \in Quantities : AddProduct(u, k[1], k[2], q)
    \/ \E u \in Users, k \in LineKeys, q \in Quantities : RemoveProduct(u, k[1], k[2], q)
    \/ \E u \in Users, k \in LineKeys : RemoveItem(u, k[1], k[2])
    \/ \E u \in Users : Clear(u)
    \/ \E u \in Users : SuccessfulPaymentReply(u)
    \/ \E u \in Users : SuccessfulPaymentClear(u)

Spec == Init /\ [][Next]_vars

(***************************************************************************)
(* Pricing: the catalog entry of a product changes while lines exist       *)
(***************************************************************************)
PriceValues == {1000, 2000}
DiscountValues == {None, Some(0), Some(10)}
PricingKeys == { <<0, None>>, <<1, Some(0)>> }

\* an assignment to the price and discount fields of self._products[product_id]
CatalogChange(product_id, price, discount) ==
    /\ Idle
    /\ products' = [products EXCEPT ![product_id + 1].price = price,
                                    ![product_id + 1].discount = discount]
    /\ products' # products
    /\ last' = Op("catalog_change", 0, product_id, None, 0, RetNone, <<>>, <<>>)
    /\ UNCHANGED <<user_items, running, chat, net, user_data, invoice, session_vars>>

NextPricing ==
    \/ \E u \in Users, k \in PricingKeys, q \in Quantities : AddProduct(u, k[1], k[2], q)
    \/ \E u \in Users, k \in PricingKeys, q \in Quantities : RemoveProduct(u, k[1], k[2], q)
    \/ \E price \in PriceValues, discount \in DiscountValues :
          CatalogChange(0, price, discount)

SpecPricing == Init /\ [][NextPricing]_vars

(***************************************************************************)
(* Vocabulary of the properties, independent of the engine's operators     *)
(***************************************************************************)
ItemsOf(u) == IF u \in DOMAIN user_items THEN user_items[u] ELSE <<>>

\* the positions of the lines with this key
Lines(items, product_id, variant_id) ==
    {i \in 1 .. Len(items) :
        items[i].product_id = product_id /\ items[i].variant_id = variant_id}

Without(items, i) == SubSeq(items, 1, i - 1) \o SubSeq(items, i + 1, Len(items))

Decremented(items, i, quantity) ==
    [j \in 1 .. Len(items) |->
        IF j = i THEN [items[j] EXCEPT !.quantity = items[j].quantity - quantity]
        ELSE items[j]]

LastIs(op) == last.op = op

(***************************************************************************)
(* C1: a cart never holds two lines with the same (product_id,             *)
(* variant_id), and an add_product for a pair that is present adds its     *)
(* quantity to that line and appends nothing.                              *)
(***************************************************************************)
C1_NoDuplicateLines ==
    /\ \A u \in DOMAIN user_items :
          \A i, j \in 1 .. Len(user_items[u]) :
             (/\ user_items[u][i].product_id = user_items[u][j].product_id
              /\ user_items[u][i].variant_id = user_items[u][j].variant_id) => i = j
    /\ LastIs("add_product") =>
          \A i \in Lines(last.before, last.product_id, last.variant_id) :
             ItemsOf(last.user) = Decremented(last.before, i, 0 - last.quantity)

C1_Witness ==
    /\ LastIs("add_product")
    /\ Len(last.before) = 2
    /\ Lines(last.before, last.product_id, last.variant_id) = {2}
    /\ ItemsOf(last.user)[2].quantity = last.before[2].quantity + last.quantity

(***************************************************************************)
(* C2: over add_product and remove_product calls with quantity >= 1 on one *)
(* key, the line's quantity is the running sum of the adds minus the       *)
(* removals, floored at 0 after each removal; at 0 the line is absent,     *)
(* otherwise there is one line with exactly that quantity.                 *)
(***************************************************************************)
C2_NetQuantity ==
    \A k \in DOMAIN net :
        net[k] # None =>
            LET items == ItemsOf(k[1])
                at == Lines(items, k[2][1], k[2][2])
            IN IF net[k][1] = 0
               THEN at = {}
               ELSE /\ Cardinality(at) = 1
                    /\ \A i \in at : items[i].quantity = net[k][1]

\* a removal of more than the line holds, after an add that merged
C2_Witness ==
    /\ LastIs("remove_product")
    /\ net[<<last.user, <<last.product_id, last.variant_id>>>>] = Some(0)
    /\ \E i \in Lines(last.before, last.product_id, last.variant_id) :
          /\ last.before[i].quantity = 2
          /\ last.quantity = 3

(***************************************************************************)
(* C3: remove_product returns False and changes nothing when the line is   *)
(* absent; deletes the line and returns None when its quantity is at most  *)
(* the requested one; otherwise subtracts exactly the requested quantity   *)
(* and returns the updated line; the other lines stay as they were.        *)
(***************************************************************************)
C3_RemoveProductOutcomes ==
    LastIs("remove_product") =>
        LET before == last.before
            after == ItemsOf(last.user)
            at == Lines(before, last.product_id, last.variant_id)
        IN /\ at = {} => last.ret = RetFalse /\ after = before
           /\ \A i \in at :
                IF before[i].quantity <= last.quantity
                THEN last.ret = RetNone /\ after = Without(before, i)
                ELSE /\ after = Decremented(before, i, last.quantity)
                     /\ last.ret = RetItem(after[i])

C3_Witness ==
    /\ LastIs("remove_product")
    /\ last.ret.kind = "item"
    /\ last.quantity = 2
    /\ Len(last.before) = 2
    /\ Lines(last.before, last.product_id, last.variant_id) = {1}

(***************************************************************************)
(* C4: remove_item deletes the whole line whatever its quantity and        *)
(* returns True, or returns False and changes nothing when the line is     *)
(* absent; every other line, a line of the same product with another       *)
(* variant included, stays as it was.                                      *)
(***************************************************************************)
C4_RemoveItemFrame ==
    LastIs("remove_item") =>
        LET before == last.before
            after == ItemsOf(last.user)
            at == Lines(before, last.product_id, last.variant_id)
        IN /\ at = {} => last.ret = RetFalse /\ after = before
           /\ \A i \in at : last.ret = RetTrue /\ after = Without(before, i)

\* the line removed has quantity above 1 and the other variant of the same
\* product stays
C4_Witness ==
    /\ LastIs("remove_item")
    /\ last.ret = RetTrue
    /\ \E i \in Lines(last.before, last.product_id, last.variant_id) :
          last.before[i].quantity > 1
    /\ Len(ItemsOf(last.user)) = 1
    /\ ItemsOf(last.user)[1].product_id = last.product_id
    /\ ItemsOf(last.user)[1].variant_id # last.variant_id

(***************************************************************************)
(* C5: once the successful-payment notification of user u has been         *)
(* handled, a cart obtained with get_cart(u) reports zero lines and zero   *)
(* products.                                                               *)
(***************************************************************************)
C5_CartEmptyAfterPayment ==
    LastIs("successful_payment") =>
        LET items == get_items(get_cart(user_items, last.user)[last.user])
        IN get_num_items(items) = 0 /\ get_num_products(items) = 0

(***************************************************************************)
(* C6: in no state has the "payment successful" acknowledgment been        *)
(* delivered to a user whose cart still holds a line that was paid.        *)
(***************************************************************************)
C6_NoAckBeforeClear ==
    (LastIs("successful_payment_reply") /\ chat[last.user] = PaymentSuccessfulText) =>
        \A i \in 1 .. Len(last.before) :
            Lines(ItemsOf(last.user), last.before[i].product_id,
                  last.before[i].variant_id) = {}

(***************************************************************************)
(* C7: the number of lines is at most the sum of the quantities, and the   *)
(* two are equal exactly when every line has quantity 1.                   *)
(***************************************************************************)
C7_ItemsVsProducts ==
    \A u \in DOMAIN user_items :
        LET items == get_items(user_items[u])
        IN /\ get_num_items(items) <= get_num_products(items)
           /\ get_num_items(items) = get_num_products(items)
                 <=> \A i \in 1 .. Len(items) : items[i].quantity = 1

\* one line of quantity 3 after a removal: 1 line, 3 products
C7_Witness ==
    /\ LastIs("remove_product")
    /\ get_num_items(ItemsOf(last.user)) = 1
    /\ get_num_products(ItemsOf(last.user)) = 3

(***************************************************************************)
(* C8: right after an add_product for product p, with or without a variant *)
(* id, has(p) is True; right after a remove_item for p, has(p) is False.   *)
(***************************************************************************)
C8_HasRoundTrip ==
    /\ (LastIs("add_product") /\ last.ret.kind = "item") =>
          has(ItemsOf(last.user), last.product_id)
    /\ LastIs("remove_item") => ~has(ItemsOf(last.user), last.product_id)

(***************************************************************************)
(* C9: calculate_total() is the sum over the lines of quantity x           *)
(* unit_price x (1 - discount) when the line has a discount and of         *)
(* quantity x unit_price otherwise, whatever the order of the lines.       *)
(***************************************************************************)
line_total(unit_price, quantity, discount) ==
    IF discount = None THEN quantity * unit_price
    ELSE (quantity * unit_price * (100 - discount[1])) \div 100

RECURSIVE SumLineTotals(_)
SumLineTotals(items) ==
    IF items = <<>> THEN 0
    ELSE line_total(Head(items).unit_price, Head(items).quantity, Head(items).discount)
         + SumLineTotals(Tail(items))

Reordered(items, f) == [i \in 1 .. Len(items) |-> items[f[i]]]

C9_TotalIsSumOfLineTotals ==
    \A u \in DOMAIN user_items :
        \A f \in Permutations(1 .. Len(user_items[u])) :
            calculate_total(Reordered(user_items[u], f))
                = Amount(SumLineTotals(user_items[u]))

(***************************************************************************)
(* C10: while a line exists, no step changes its unit_price or its         *)
(* discount, a merging add_product after a catalog change included, and a  *)
(* change of a product's price or discount in the catalog changes neither  *)
(* the lines nor calculate_total().                                        *)
(***************************************************************************)
C10_SnapshotPricing ==
    [][ /\ \A u \in DOMAIN user_items :
              \A i \in 1 .. Len(user_items[u]) :
                 \A j \in Lines(user_items'[u], user_items[u][i].product_id,
                                user_items[u][i].variant_id) :
                    /\ user_items'[u][j].unit_price = user_items[u][i].unit_price
                    /\ user_items'[u][j].discount = user_items[u][i].discount
        /\ products' # products =>
              \A u \in DOMAIN user_items :
                 /\ user_items'[u] = user_items[u]
                 /\ calculate_total(user_items'[u]) = calculate_total(user_items[u])
      ]_vars

\* an add_product has merged into a line whose product has since got another
\* price and another discount in the catalog; the line has kept its own
C10_Witness ==
    /\ LastIs("add_product")
    /\ \E i \in Lines(last.before, last.product_id, last.variant_id) :
          LET line == ItemsOf(last.user)[i]
              product == get_product(products, last.product_id)
          IN /\ line.quantity = last.before[i].quantity + last.quantity
             /\ line.unit_price = last.before[i].unit_price
             /\ line.unit_price # product.price
             /\ line.discount = None
             /\ product.discount = Some(10)
             /\ calculate_total(ItemsOf(last.user)) = Amount(line.quantity * line.unit_price)

(***************************************************************************)
(* The buttons that add to the cart: _add_to_cart and                      *)
(* _add_one_product_to_cart                                                *)
(***************************************************************************)
has_variants(product) ==
    product.variants # None /\ Len(product.variants[1]) # 0

RetWarning == [kind |-> "warning", item |-> None]
RetTypeError == [kind |-> "TypeError", item |-> None]

ProductAddedText == "Product added to cart"
OneProductAddedText == "One product added to cart"

\* the sums of the add_product calls made by the handlers
NetAfterAdd(k, ret, quantity) ==
    IF k \in DOMAIN net /\ net[k] # None /\ ret.kind = "item"
    THEN [net EXCEPT ![k] = Some(@[1] + quantity)] ELSE net

\* callback add_to_cart:<edit>:<product_id>[:<variant_id>]
AddToCart(u, product_id, variant_id) ==
    LET product == get_product(products, product_id)
        store == get_cart(user_items, u)
        r == add_product(store[u], products, product_id, variant_id, 1)
        before == IF u \in DOMAIN user_items THEN user_items[u] ELSE <<>>
    IN /\ Idle
       /\ IF product = IndexError
          THEN /\ last' = Op("add_to_cart", u, product_id, variant_id, 1, RetRaised,
                             before, before)
               /\ UNCHANGED <<user_items, chat, net>>
          ELSE IF has_variants(product) /\ variant_id = None
          THEN \* logger.warning(...); return
               /\ last' = Op("add_to_cart", u, product_id, variant_id, 1, RetWarning,
                             before, before)
               /\ UNCHANGED <<user_items, chat, net>>
          ELSE IF has_variants(product)
                  /\ get_variant_title(product, variant_id[1]) = None
          THEN \* " (" + None + ")"
               /\ last' = Op("add_to_cart", u, product_id, variant_id, 1, RetTypeError,
                             before, before)
               /\ UNCHANGED <<user_items, chat, net>>
          ELSE /\ Len(r.items) <= MaxLines
               /\ \A i \in 1 .. Len(r.items) : r.items[i].quantity <= MaxQty
               /\ user_items' = [store EXCEPT ![u] = r.items]
               /\ chat' = [chat EXCEPT ![u] = ProductAddedText]
               /\ net' = NetAfterAdd(<<u, <<product_id, variant_id>>>>, r.ret, 1)
               /\ last' = Op("add_to_cart", u, product_id, variant_id, 1, r.ret,
                             store[u], r.items)
       /\ UNCHANGED <<products, running, user_data, invoice, session_vars>>

\* callback add_one_product_to_cart:<product_id>[:<variant_id>], the "+" button
\* of a cart line
AddOneProductToCart(u, product_id, variant_id) ==
    LET store == get_cart(user_items, u)
        r == add_product(store[u], products, product_id, variant_id, 1)
    IN /\ Idle
       /\ Len(r.items) <= MaxLines
       /\ \A i \in 1 .. Len(r.items) : r.items[i].quantity <= MaxQty
       /\ user_items' = [store EXCEPT ![u] = r.items]
       /\ chat' = IF r.ret.kind = "item"
                  THEN [chat EXCEPT ![u] = OneProductAddedText] ELSE chat
       /\ net' = NetAfterAdd(<<u, <<product_id, variant_id>>>>, r.ret, 1)
       /\ last' = Op("add_one_product_to_cart", u, product_id, variant_id, 1, r.ret,
                     store[u], r.items)
       /\ UNCHANGED <<products, running, user_data, invoice, session_vars>>

\* product 0 has no variants, product 1 has the variants 0 and 1, there is no
\* product 2 and no variant 7
VariantKeys ==
    { <<0, None>>, <<1, None>>, <<1, Some(0)>>, <<1, Some(7)>>, <<2, None>> }

NextVariants ==
    \/ \E u \in Users, k \in VariantKeys : AddProduct(u, k[1], k[2], 1)
    \/ \E u \in Users, k \in VariantKeys : AddToCart(u, k[1], k[2])
    \/ \E u \in Users, k \in VariantKeys : AddOneProductToCart(u, k[1], k[2])
    \/ \E u \in Users, k \in VariantKeys : RemoveItem(u, k[1], k[2])

SpecVariants == Init /\ [][NextVariants]_vars

(***************************************************************************)
(* C11: an add of a product that has variants, without a variant id, is    *)
(* rejected on every path to the cart (add_product, the add_to_cart        *)
(* button, the add_one_product_to_cart button): it is signalled and no     *)
(* line is created or incremented.  A logged warning counts as the signal. *)
(***************************************************************************)
C11_VariantRequired ==
    /\ \A u \in DOMAIN user_items :
          \A i \in 1 .. Len(user_items[u]) :
             LET product == get_product(products, user_items[u][i].product_id)
             IN (product # IndexError /\ has_variants(product))
                   => user_items[u][i].variant_id # None
    /\ (/\ last.op \in {"add_product", "add_to_cart", "add_one_product_to_cart"}
        /\ get_product(products, last.product_id) # IndexError
        /\ has_variants(get_product(products, last.product_id))
        /\ last.variant_id = None)
          => /\ last.ret.kind \in {"InvalidOperation", "warning"}
             /\ ItemsOf(last.user) = last.before

(***************************************************************************)
(* Catalog of EcommerceDemo: categories, generated products,               *)
(* browse_products and ProductSearchResultsPage                            *)
(***************************************************************************)
MaxInCategory == 6   \* largest number of products generated for a category
MaxPageNum == 4      \* largest page number asked for

ProductCategory(id, name, parent_id, subcategory_ids) ==
    [id |-> id, name |-> name, parent_id |-> parent_id,
     subcategory_ids |-> subcategory_ids]

categories ==
    << ProductCategory(0, "Electronics", None, Some(<<4, 5>>)),
       ProductCategory(1, "Clothing", None, Some(<<6, 7, 8>>)),
       ProductCategory(2, "Books", None, Some(<<9, 10>>)),
       ProductCategory(3, "Home & Kitchen", None, None),
       ProductCategory(4, "Laptops", Some(0), None),
       ProductCategory(5, "Smartphones", Some(0), None),
       ProductCategory(6, "T-shirts", Some(1), None),
       ProductCategory(7, "Jeans", Some(1), None),
       ProductCategory(8, "Caps", Some(1), None),
       ProductCategory(9, "Fiction", Some(2), None),
       ProductCategory(10, "Non-fiction", Some(2), None) >>

UpperCase ==
    << "A", "B", "C", "D", "E", "F", "G", "H", "I", "J", "K", "L", "M",
       "N", "O", "P", "Q", "R", "S", "T", "U", "V", "W", "X", "Y", "Z" >>
LowerCase ==
    << "a", "b", "c", "d", "e", "f", "g", "h", "i", "j", "k", "l", "m",
       "n", "o", "p", "q", "r", "s", "t", "u", "v", "w", "x", "y", "z" >>

\* str.lower()
lower(text) ==
    [i \in 1 .. Len(text) |->
        IF \E j \in 1 .. Len(UpperCase) : UpperCase[j] = text[i]
        THEN LowerCase[CHOOSE j \in 1 .. Len(UpperCase) : UpperCase[j] = text[i]]
        ELSE text[i]]

\* q in text
Contains(q, text) ==
    \E k \in 0 .. Len(text) - Len(q) : SubSeq(text, k + 1, k + Len(q)) = q

DecimalDigits == << "0", "1", "2", "3", "4", "5", "6", "7", "8", "9" >>

\* "%d" % n, for n >= 0
RECURSIVE Digits(_)
Digits(n) ==
    IF n < 10 THEN << DecimalDigits[n + 1] >>
    ELSE Append(Digits(n \div 10), DecimalDigits[(n % 10) + 1])

ProductName(product_id) ==
    << "P", "r", "o", "d", "u", "c", "t", " " >> \o Digits(product_id)

ProductDescription(product_id) ==
    << "T", "h", "i", "s", " ", "i", "s", " ", "p", "r", "o", "d", "u", "c", "t", " " >>
        \o Digits(product_id) \o << "." >>

RECURSIVE SumCounts(_, _)
SumCounts(counts, n) == IF n = 0 THEN 0 ELSE counts[n] + SumCounts(counts, n - 1)

\* the products of _generate_demo_data when counts[c] products are drawn for
\* the c-th category: categories are filled in list order, ids are positions
_generate_demo_data(counts) ==
    [i \in 1 .. SumCounts(counts, Len(counts)) |->
        LET c == CHOOSE c \in 1 .. Len(counts) :
                    SumCounts(counts, c - 1) < i /\ i <= SumCounts(counts, c)
        IN Product(i - 1, ProductName(i - 1), categories[c].id, 1000, 1,
                   Some(ProductDescription(i - 1)), None, None)]

\* self._products_in_category: per position of categories, the ids of the
\* products generated for that category
_products_in_category(prods) ==
    [c \in 1 .. Len(categories) |->
        LET ids == [i \in 1 .. Len(prods) |-> prods[i].id]
            InCategory(id) == prods[id + 1].category_id = categories[c].id
        IN SelectSeq(ids, InCategory)]

ProductSearchResultsPage(page_products, page_num, page_size, total) ==
    [raised |-> "none", products |-> page_products, page_num |-> page_num,
     page_size |-> page_size, total |-> total]

Raised(exception) == [raised |-> exception]

\* total // page_size
num_pages(page) ==
    IF page.page_size = None THEN Raised("TypeError")
    ELSE IF page.page_size[1] = 0 THEN Raised("ZeroDivisionError")
    ELSE [raised |-> "none", value |-> page.total \div page.page_size[1]]

has_next(page) ==
    IF num_pages(page).raised # "none" THEN num_pages(page)
    ELSE [raised |-> "none", value |-> page.page_num # num_pages(page).value]

has_previous(page) == page.page_num # 1

\* list[a:b]
Slice(list, a, b) ==
    LET n == Len(list)
        Clamp(x) == IF x < 0 THEN (IF x + n < 0 THEN 0 ELSE x + n)
                    ELSE (IF x > n THEN n ELSE x)
    IN SubSeq(list, Clamp(a) + 1, Clamp(b))

\* the condition of the query filter
Matches(product, q) ==
    \/ Contains(lower(q), lower(product.name))
    \/ /\ product.description # None
       /\ Contains(lower(q), lower(product.description[1]))

\* the list browse_products starts from: every product, or the products whose
\* ids self._products_in_category[category_id] holds (Python list indexing)
found_in_category(prods, category_id) ==
    LET in_category == _products_in_category(prods)
        n == Len(in_category)
        c == category_id[1]
        Of(ids) == [i \in 1 .. Len(ids) |-> get_product(prods, ids[i])]
    IN IF category_id = None THEN [raised |-> "none", products |-> prods]
       ELSE IF c >= 0 /\ c < n
            THEN [raised |-> "none", products |-> Of(in_category[c + 1])]
       ELSE IF c < 0 /\ 0 - c <= n
            THEN [raised |-> "none", products |-> Of(in_category[n + c + 1])]
       ELSE Raised("IndexError")

query_filter(found_products, q) ==
    IF q = None THEN found_products
    ELSE SelectSeq(found_products, LAMBDA product : Matches(product, q[1]))

\* as browse_products, with every page of an unpaginated search holding the
\* whole result
browse_products_on_every_page(prods, q, category_id, page_num, page_size) ==
    LET found == found_in_category(prods, category_id)
        found_products == query_filter(found.products, q)
    IN IF found.raised # "none" THEN found
       ELSE IF Len(found.products) = 0
            THEN ProductSearchResultsPage(<<>>, 1, page_size, 0)
       ELSE IF page_size # Some(0) /\ page_size # None
            THEN ProductSearchResultsPage(
                     Slice(found_products, page_size[1] * (page_num - 1),
                           page_size[1] * page_num),
                     page_num, page_size, Len(found_products))
       ELSE ProductSearchResultsPage(found_products, page_num, Some(Len(prods)),
                                     Len(found_products))

\* as browse_products, with the slice of a page starting where the page ends
browse_products_one_page_ahead(prods, q, category_id, page_num, page_size) ==
    LET found == found_in_category(prods, category_id)
        found_products == query_filter(found.products, q)
    IN IF found.raised # "none" THEN found
       ELSE IF Len(found.products) = 0
            THEN ProductSearchResultsPage(<<>>, 1, page_size, 0)
       ELSE IF page_size # Some(0) /\ page_size # None
            THEN ProductSearchResultsPage(
                     Slice(found_products, page_size[1] * page_num,
                           page_size[1] * (page_num + 1)),
                     page_num, page_size, Len(found_products))
       ELSE ProductSearchResultsPage(
                IF page_num > 1 THEN <<>> ELSE found_products,
                page_num, Some(Len(prods)), Len(found_products))

browse_products(prods, q, category_id, page_num, page_size) ==
    LET found == found_in_category(prods, category_id)
        found_products == query_filter(found.products, q)
    IN IF found.raised # "none" THEN found
       ELSE IF Len(found.products) = 0
            THEN ProductSearchResultsPage(<<>>, 1, page_size, 0)
       ELSE IF page_size # Some(0) /\ page_size # None
            THEN ProductSearchResultsPage(
                     Slice(found_products, page_size[1] * (page_num - 1),
                           page_size[1] * page_num),
                     page_num, page_size, Len(found_products))
       ELSE ProductSearchResultsPage(
                IF page_num > 1 THEN <<>> ELSE found_products,
                page_num, Some(Len(prods)), Len(found_products))

(***************************************************************************)
(* Browsing a generated catalog                                            *)
(***************************************************************************)
\* products are generated for the first and for the last category only
CategoryCounts ==
    { [c \in 1 .. Len(categories) |->
          IF c = 1 THEN first ELSE IF c = Len(categories) THEN other ELSE 0] :
      first \in 0 .. MaxInCategory, other \in {0, MaxInCategory} }

Queries == { None, Some(<< "1" >>), Some(<< "T", "H", "I", "S" >>), Some(<< "z" >>) }
CategoryIds == { None, Some(0), Some(3), Some(10), Some(11), Some(-1), Some(-12) }
PageNums == 0 .. MaxPageNum
PageSizes == { None, Some(0), Some(1), Some(2), Some(5) }

\* a call of the catalog that has arrived and is not yet served
BrowseRequest(q, category_id, page_num, page_size) ==
    [op |-> "request", call |-> "browse_products", q |-> q,
     category_id |-> category_id, page_num |-> page_num, page_size |-> page_size]

BrowseRequests ==
    { BrowseRequest(q, category_id, page_num, page_size) :
        q \in Queries, category_id \in CategoryIds, page_num \in PageNums,
        page_size \in PageSizes }

Requested(call) == last.op = "request" /\ last.call = call

\* self.categories[category_id]: Python list indexing, as get_product
get_category(category_id) ==
    IF category_id >= 0 /\ category_id < Len(categories)
    THEN categories[category_id + 1]
    ELSE IF category_id < 0 /\ 0 - category_id <= Len(categories)
         THEN categories[Len(categories) + category_id + 1]
         ELSE IndexError

get_categories(parent_id) ==
    IF parent_id = None THEN categories
    ELSE SelectSeq(categories, LAMBDA category : category.parent_id = parent_id)

ParentIds == { None, Some(0), Some(1), Some(3), Some(4), Some(11) }

CategoriesRequests ==
    { [op |-> "request", call |-> "get_categories", parent_id |-> parent_id] :
        parent_id \in ParentIds }

\* a generated catalog, and one call of it to serve
InitCatalog ==
    /\ user_items = [u \in {} |-> <<>>]
    /\ products \in { _generate_demo_data(counts) : counts \in CategoryCounts }
    /\ running = None
    /\ chat = [u \in Users |-> "none"]
    /\ last \in BrowseRequests \cup CategoriesRequests
    /\ net = [k \in Users \X LineKeys |-> Some(0)]
    /\ user_data = [u \in Users |-> NoUserData]
    /\ invoice = [u \in Users |-> None]
    /\ conversations = NoConversations
    /\ checkout = [u \in Users |-> NoCheckout]
    /\ tasks = <<>>
    /\ buttons = {}
    /\ handles = <<>>
    /\ requested = NotFollowed

BrowseProducts(q, category_id, page_num, page_size) ==
    /\ Idle
    /\ last' = [op |-> "browse_products", q |-> q, category_id |-> category_id,
                page_num |-> page_num, page_size |-> page_size,
                page |-> browse_products(products, q, category_id, page_num,
                                         page_size)]
    /\ UNCHANGED <<user_items, products, running, chat, net, user_data, invoice, session_vars>>

GetCategories(parent_id) ==
    /\ Idle
    /\ last' = [op |-> "get_categories", parent_id |-> parent_id,
                ret |-> get_categories(parent_id)]
    /\ UNCHANGED <<user_items, products, running, chat, net, user_data, invoice, session_vars>>

NextCatalog ==
    \/ /\ Requested("browse_products")
       /\ BrowseProducts(last.q, last.category_id, last.page_num, last.page_size)
    \/ /\ Requested("get_categories")
       /\ GetCategories(last.parent_id)

SpecCatalog == InitCatalog /\ [][NextCatalog]_vars

(***************************************************************************)
(* C12: for every number of matching products and every page_size >= 1, a  *)
(* results page reports has_previous = False exactly on page 1 and         *)
(* has_next = True exactly when the following page would hold at least one *)
(* product (page 3 of 12 matches with page_size 5 reports has_next =       *)
(* False, the pages before it has_next = True).                            *)
(***************************************************************************)
C12_PageFlags ==
    (/\ LastIs("browse_products")
     /\ last.page.raised = "none"
     /\ last.page.page_size # None
     /\ last.page.page_size # Some(0))
       => /\ has_previous(last.page) = (last.page.page_num # 1)
          /\ has_next(last.page).raised = "none"
          /\ has_next(last.page).value
                = (last.page.page_num * last.page.page_size[1] < last.page.total)

(***************************************************************************)
(* C13: browse_products with page_size 0 or None returns the complete      *)
(* filtered product set on page 1 and an empty product list on every       *)
(* page_num > 1, for every query and every category.                       *)
(***************************************************************************)
IsCategory(category_id) ==
    \E c \in 1 .. Len(categories) : categories[c].id = category_id

\* the products of the category (of the catalog when none is given) that the
\* query matches, in catalog order
FilteredSet(prods, q, category_id) ==
    SelectSeq(prods,
              LAMBDA product :
                  /\ category_id # None => product.category_id = category_id[1]
                  /\ q # None => Matches(product, q[1]))

C13_Unpaginated ==
    (/\ LastIs("browse_products")
     /\ last.page_size \in {None, Some(0)}
     /\ last.category_id # None => IsCategory(last.category_id[1]))
       => /\ last.page.raised = "none"
          /\ last.page_num = 1
                => last.page.products
                      = FilteredSet(products, last.q, last.category_id)
          /\ last.page_num > 1 => last.page.products = <<>>

C13_Witness ==
    /\ LastIs("browse_products")
    /\ last.page_size = Some(0)
    /\ last.page_num = 1
    /\ last.q # None
    /\ last.category_id = Some(10)
    /\ Len(last.page.products) >= 2
    /\ Len(last.page.products) < Len(FilteredSet(products, None, last.category_id))

(***************************************************************************)
(* C14: browse_products never fails: for every query, page number and      *)
(* category_id, a category_id that names no category included, it returns *)
(* a results page (empty when nothing matches); it does not raise and does *)
(* not return products of another category.                                *)
(***************************************************************************)
C14_BrowseNeverFails ==
    LastIs("browse_products")
       => /\ last.page.raised = "none"
          /\ last.category_id # None
                => \A i \in 1 .. Len(last.page.products) :
                      last.page.products[i].category_id = last.category_id[1]

(***************************************************************************)
(* The product view: get_product, get_category and _show_product on a      *)
(* catalog whose stock fields take every value up to MaxStock              *)
(***************************************************************************)
MaxStock == 2   \* largest stock of a product and of a variant

has_stock(product) == product.stock > 0

\* the products of DemoProducts with these stock fields
StockedProducts(stock_0, stock_1, variant_stock_0, variant_stock_1) ==
    << Product(0, "Product 0", 0, 1000, stock_0, Some("This is product 0."),
               None, None),
       Product(1, "Product 1", 0, 2500, stock_1, Some("This is product 1."), None,
               Some(<< ProductVariant(0, "Variant 0", variant_stock_0),
                       ProductVariant(1, "Variant 1", variant_stock_1) >>)) >>

ProductDoesNotExistText == "Product does not exist"
ProductViewText == "Price"

LookupIds == { -12, -3, -1, 0, 1, 2, 11 }

ViewRequests ==
    { [op |-> "request", call |-> call, user |-> u, id |-> id] :
        call \in {"get_product", "get_category", "show_product"},
        u \in Users, id \in LookupIds }

InitProductView ==
    /\ user_items = [u \in {} |-> <<>>]
    /\ products \in { StockedProducts(s0, s1, v0, v1) :
                        s0 \in 0 .. MaxStock, s1 \in 0 .. MaxStock,
                        v0 \in 0 .. MaxStock, v1 \in 0 .. MaxStock }
    /\ running = None
    /\ chat = [u \in Users |-> "none"]
    /\ last \in ViewRequests
    /\ net = [k \in Users \X LineKeys |-> Some(0)]
    /\ user_data = [u \in Users |-> NoUserData]
    /\ invoice = [u \in Users |-> None]
    /\ conversations = NoConversations
    /\ checkout = [u \in Users |-> NoCheckout]
    /\ tasks = <<>>
    /\ buttons = {}
    /\ handles = <<>>
    /\ requested = NotFollowed

GetProduct(product_id) ==
    /\ Idle
    /\ last' = [op |-> "get_product", id |-> product_id,
                ret |-> get_product(products, product_id)]
    /\ UNCHANGED <<user_items, products, running, chat, net, user_data, invoice, session_vars>>

GetCategory(category_id) ==
    /\ Idle
    /\ last' = [op |-> "get_category", id |-> category_id,
                ret |-> get_category(category_id)]
    /\ UNCHANGED <<user_items, products, running, chat, net, user_data, invoice, session_vars>>

\* what _show_product sends: the stock line and the callback of the
\* "Add to Cart" button, if the button is there
ProductView(product) ==
    [kind |-> "product_view",
     product_id |-> product.id,
     stock |-> IF has_stock(product) THEN Some(product.stock) ELSE None,
     add_to_cart |-> IF ~has_stock(product) THEN None
                     ELSE IF has_variants(product)
                          THEN Some("show_product_variants")
                          ELSE Some("add_to_cart")]

\* callback product:<product_id>; every product of the demo has photos
ShowProduct(u, product_id) ==
    LET product == get_product(products, product_id)
    IN /\ Idle
       /\ IF product = IndexError
          THEN /\ last' = [op |-> "show_product", user |-> u, id |-> product_id,
                           ret |-> [kind |-> "IndexError"]]
               /\ UNCHANGED <<user_items, chat>>
          ELSE IF product = None
          THEN /\ last' = [op |-> "show_product", user |-> u, id |-> product_id,
                           ret |-> [kind |-> "does_not_exist"]]
               /\ chat' = [chat EXCEPT ![u] = ProductDoesNotExistText]
               /\ UNCHANGED user_items
          ELSE IF get_category(product.category_id) = IndexError
          THEN /\ last' = [op |-> "show_product", user |-> u, id |-> product_id,
                           ret |-> [kind |-> "IndexError"]]
               /\ UNCHANGED <<user_items, chat>>
          ELSE /\ last' = [op |-> "show_product", user |-> u, id |-> product_id,
                           ret |-> ProductView(product)]
               /\ user_items' = get_cart(user_items, u)
               /\ chat' = [chat EXCEPT ![u] = ProductViewText]
       /\ UNCHANGED <<products, running, net, user_data, invoice, session_vars>>

NextProductView ==
    \/ /\ Requested("get_product")
       /\ GetProduct(last.id)
    \/ /\ Requested("get_category")
       /\ GetCategory(last.id)
    \/ /\ Requested("show_product")
       /\ ShowProduct(last.user, last.id)

SpecProductView == InitProductView /\ [][NextProductView]_vars

(***************************************************************************)
(* C15: get_product(id) and get_category(id) return the entity whose id is *)
(* the argument when there is one and signal NotFound for every other id,  *)
(* negative ids included; they never return an entity with another id, and *)
(* the product view answers a NotFound with a "does not exist" reply.  Any *)
(* raised exception counts as the NotFound signal of the lookups.          *)
(***************************************************************************)
HasId(entities, id) == \E i \in 1 .. Len(entities) : entities[i].id = id

C15_LookupsById ==
    /\ LastIs("get_product") =>
          IF HasId(products, last.id)
          THEN last.ret # IndexError /\ last.ret.id = last.id
          ELSE last.ret = IndexError
    /\ LastIs("get_category") =>
          IF HasId(categories, last.id)
          THEN last.ret # IndexError /\ last.ret.id = last.id
          ELSE last.ret = IndexError
    /\ LastIs("show_product") =>
          IF HasId(products, last.id)
          THEN last.ret.kind = "product_view" /\ last.ret.product_id = last.id
          ELSE /\ last.ret.kind = "does_not_exist"
               /\ chat[last.user] = ProductDoesNotExistText

(***************************************************************************)
(* C16: get_categories(parent_id=None) returns exactly the categories      *)
(* without a parent, and get_categories(parent_id=c) exactly the           *)
(* categories whose parent_id is c.                                        *)
(***************************************************************************)
C16_CategoriesOfParent ==
    LastIs("get_categories") =>
        /\ \A i \in 1 .. Len(last.ret) : last.ret[i].parent_id = last.parent_id
        /\ \A c \in 1 .. Len(categories) :
              categories[c].parent_id = last.parent_id
                 => \E i \in 1 .. Len(last.ret) : last.ret[i] = categories[c]

(***************************************************************************)
(* C17: for a product with a non-empty variant list, has_stock is true     *)
(* exactly when some variant has stock > 0, whatever the product's own     *)
(* stock field holds, and the product view offers the "Add to Cart" button *)
(* exactly in that case.                                                   *)
(***************************************************************************)
C17_StockOfVariants ==
    (/\ LastIs("show_product")
     /\ last.ret.kind = "product_view"
     /\ has_variants(get_product(products, last.ret.product_id)))
       => LET product == get_product(products, last.ret.product_id)
              some_variant == \E i \in 1 .. Len(product.variants[1]) :
                                 product.variants[1][i].stock > 0
          IN /\ has_stock(product) = some_variant
             /\ (last.ret.add_to_cart # None) = some_variant

(***************************************************************************)
(* Checkout: _show_checkout, _pay_now and _pre_checkout_query              *)
(***************************************************************************)
NothingToCheckoutText == "Nothing to checkout. Your cart is empty."
CartEmptyText == "Your cart is empty."
ProceedToPaymentText == "Proceed to payment?"

LabeledPrice(label, amount) == [label |-> label, amount |-> amount]

RECURSIVE SumAmounts(_)
SumAmounts(prices) ==
    IF prices = <<>> THEN 0 ELSE Head(prices).amount + SumAmounts(Tail(prices))

\* cart.get_summary(...): a row per line and the total; the total of a line
\* with a discount and the text of a variant without title raise TypeError
get_summary(items) ==
    IF items = <<>> THEN [raised |-> "none", rows |-> 0, text |-> CartEmptyText]
    ELSE IF \/ calculate_total(items) = TypeError
            \/ \E i \in 1 .. Len(items) :
                  items[i].variant_id # None /\ items[i].variant_title = None
         THEN [raised |-> "TypeError"]
         ELSE [raised |-> "none", rows |-> Len(items),
               total |-> calculate_total(items).value]

\* the outcome of _show_checkout on these lines
show_checkout(items) ==
    IF get_num_products(items) = 0
    THEN [kind |-> "empty_cart", reply |-> Some(NothingToCheckoutText),
          summary |-> None]
    ELSE IF get_summary(items).raised # "none"
         THEN [kind |-> "TypeError", reply |-> None, summary |-> None]
         ELSE [kind |-> "summary", reply |-> Some(ProceedToPaymentText),
               summary |-> Some(get_summary(items))]

\* as pay_now, with no entry guard and a loop over the lines that builds the
\* prices of the invoice
pay_now_for_any_cart(items) ==
    [kind |-> "invoice", reply |-> None,
     prices |-> Some([i \in 1 .. Len(items) |->
                        LabeledPrice(items[i].name,
                                     items[i].quantity * items[i].unit_price)])]

\* the outcome of _pay_now on these lines: `for item in cart` raises
\* TypeError, ShoppingCart defines __aiter__ only and is no iterable, so
\* neither user_data["prices"] nor send_invoice is reached
pay_now(items) ==
    IF get_num_products(items) = 0
    THEN [kind |-> "empty_cart", reply |-> Some(CartEmptyText), prices |-> None]
    ELSE [kind |-> "TypeError", reply |-> None, prices |-> None]

\* the answer of _pre_checkout_query
pre_checkout_query(data, total_amount) ==
    IF data.prices = None THEN [kind |-> "KeyError"]
    ELSE IF total_amount # SumAmounts(data.prices[1])
         THEN [kind |-> "Price mismatch"]
         ELSE [kind |-> "ok"]

\* callback checkout
ShowCheckout(u) ==
    LET store == get_cart(user_items, u)
        r == show_checkout(store[u])
    IN /\ Idle
       /\ user_items' = store
       /\ chat' = IF r.reply # None THEN [chat EXCEPT ![u] = r.reply[1]] ELSE chat
       /\ last' = [op |-> "show_checkout", user |-> u, ret |-> r,
                   before |-> store[u], invoice_before |-> invoice[u]]
       /\ UNCHANGED <<products, running, net, user_data, invoice, session_vars>>

\* callback pay_now
PayNow(u) ==
    LET store == get_cart(user_items, u)
        r == pay_now(store[u])
    IN /\ Idle
       /\ user_items' = store
       /\ chat' = IF r.reply # None THEN [chat EXCEPT ![u] = r.reply[1]] ELSE chat
       /\ user_data' = IF r.prices # None
                       THEN [user_data EXCEPT ![u].prices = r.prices]
                       ELSE user_data
       /\ invoice' = IF r.prices # None THEN [invoice EXCEPT ![u] = r.prices]
                     ELSE invoice
       /\ checkout' = IF r.prices # None
                      THEN [checkout EXCEPT ![u] =
                               [invoice_issued |-> TRUE, validated |-> FALSE,
                                settled |-> FALSE]]
                      ELSE checkout
       /\ last' = [op |-> "pay_now", user |-> u, ret |-> r,
                   before |-> store[u], invoice_before |-> invoice[u]]
       /\ requested' = IF /\ requested.followed
                          /\ store[u] # <<>>
                          /\ Len(requested.carts) < MaxInvoices
                       THEN [requested EXCEPT
                                !.carts = Append(@, [user |-> u, items |-> store[u]])]
                       ELSE requested
       /\ UNCHANGED <<products, running, net, conversations, tasks, buttons, handles>>

\* a pre-checkout query of the payment provider for user u; asked_for holds
\* the lines of the cart when the query answers a pay_now of u
\* as PreCheckoutQuery, with a query that is not accepted emptying the cart
PreCheckoutQuery_dropping_cart(u, total_amount) ==
    LET r == pre_checkout_query(user_data[u], total_amount)
    IN /\ Idle
       /\ last' = [op |-> "pre_checkout_query", user |-> u,
                   total_amount |-> total_amount, ret |-> r, asked_for |-> None]
       /\ user_items' = IF r.kind # "ok" /\ u \in DOMAIN user_items
                        THEN [user_items EXCEPT ![u] = <<>>] ELSE user_items
       /\ UNCHANGED <<products, running, chat, net, user_data, invoice, session_vars>>

PreCheckoutQuery(u, total_amount) ==
    LET r == pre_checkout_query(user_data[u], total_amount)
    IN /\ Idle
       /\ last' = [op |-> "pre_checkout_query", user |-> u,
                   total_amount |-> total_amount, ret |-> r,
                   asked_for |-> IF /\ last.op = "pay_now"
                                    /\ last.user = u
                                    /\ last.before # <<>>
                                 THEN Some(last.before) ELSE None]
       /\ checkout' = IF r.kind = "ok"
                      THEN [checkout EXCEPT ![u].validated = checkout[u].invoice_issued]
                      ELSE checkout
       /\ UNCHANGED <<user_items, products, running, chat, net, user_data, invoice,
                      conversations, tasks, buttons, handles,
                   requested>>

TotalAmounts == {0, 1000, 2000, 2500}

NextCheckout ==
    \/ \E u \in Users, k \in PricingKeys, q \in Quantities : AddProduct(u, k[1], k[2], q)
    \/ \E u \in Users, k \in PricingKeys : RemoveItem(u, k[1], k[2])
    \/ \E discount \in DiscountValues : CatalogChange(0, 1000, discount)
    \/ \E u \in Users : ShowCheckout(u)
    \/ \E u \in Users : PayNow(u)
    \/ \E u \in Users, total_amount \in TotalAmounts : PreCheckoutQuery(u, total_amount)

SpecCheckout == Init /\ [][NextCheckout]_vars

HoldsNoProducts(items) == \A i \in 1 .. Len(items) : items[i].quantity = 0

(***************************************************************************)
(* C18: no invoice is issued for a user whose cart holds zero products at  *)
(* the time of the pay_now action: checkout and pay_now answer with an     *)
(* empty-cart reply and send no invoice.                                   *)
(***************************************************************************)
C18_NoInvoiceForEmptyCart ==
    /\ (LastIs("pay_now") /\ HoldsNoProducts(last.before)) =>
          /\ chat[last.user] = CartEmptyText
          /\ invoice[last.user] = last.invoice_before
          /\ user_data[last.user].prices = None
    /\ (LastIs("show_checkout") /\ HoldsNoProducts(last.before)) =>
          /\ chat[last.user] = NothingToCheckoutText
          /\ invoice[last.user] = last.invoice_before
    /\ \A u \in Users : invoice[u] # None => invoice[u] # Some(<<>>)

C18_Witness ==
    /\ LastIs("pay_now")
    /\ last.user \in DOMAIN user_items
    /\ HoldsNoProducts(last.before)
    /\ chat[last.user] = CartEmptyText
    /\ invoice[last.user] = None

(***************************************************************************)
(* C19: pay_now on a non-empty cart issues an invoice with exactly one     *)
(* (label, amount) pair per cart line, of amount round(line_total x 100)   *)
(* with line_total = quantity x unit_price x (1 - discount) when there is  *)
(* a discount; the sum of the amounts is 100 times the cart total.         *)
(***************************************************************************)
C19_InvoicePerLine ==
    (LastIs("pay_now") /\ ~HoldsNoProducts(last.before)) =>
        /\ invoice[last.user] # None
        /\ Len(invoice[last.user][1]) = Len(last.before)
        /\ \A i \in 1 .. Len(last.before) :
              invoice[last.user][1][i].amount
                 = line_total(last.before[i].unit_price, last.before[i].quantity,
                              last.before[i].discount)
        /\ SumAmounts(invoice[last.user][1]) = SumLineTotals(last.before)

(***************************************************************************)
(* C20: a pre-checkout query is accepted if and only if its total_amount   *)
(* equals the sum of the amounts cached for the user when the invoice was  *)
(* issued, also when the cart was changed after the invoice; a query is    *)
(* either accepted or rejected.                                            *)
(***************************************************************************)
C20_AcceptedIffCachedTotal ==
    LastIs("pre_checkout_query") =>
        /\ last.ret.kind \in {"ok", "Price mismatch"}
        /\ last.ret.kind = "ok"
              <=> /\ user_data[last.user].prices # None
                  /\ last.total_amount = SumAmounts(user_data[last.user].prices[1])
        /\ (/\ last.asked_for # None
            /\ last.total_amount = SumLineTotals(last.asked_for[1]))
              => last.ret.kind = "ok"

(***************************************************************************)
(* The payment flow: the cart buttons, pay_now, the pre-checkout query and *)
(* the successful-payment message, in any order the updates arrive         *)
(***************************************************************************)
NextPayment ==
    \/ \E u \in Users, k \in PricingKeys, q \in Quantities : AddProduct(u, k[1], k[2], q)
    \/ \E u \in Users, k \in PricingKeys : AddToCart(u, k[1], k[2])
    \/ \E u \in Users, k \in PricingKeys : AddOneProductToCart(u, k[1], k[2])
    \/ \E u \in Users, k \in PricingKeys : RemoveItem(u, k[1], k[2])
    \/ \E u \in Users : PayNow(u)
    \/ \E u \in Users, total_amount \in TotalAmounts : PreCheckoutQuery(u, total_amount)
    \/ \E u \in Users : SuccessfulPaymentReply(u)
    \/ \E u \in Users : SuccessfulPaymentClear(u)

SpecPayment == Init /\ [][NextPayment]_vars

C22_CartFrozen ==
    [][(/\ last.op = "pay_now"
        /\ ~HoldsNoProducts(last.before)
        /\ last'.op \in {"add_product", "add_to_cart", "add_one_product_to_cart",
                         "remove_product", "remove_item"}
        /\ last'.user = last.user)
          => user_items'[last.user] = user_items[last.user]]_vars

(***************************************************************************)
(* C23: for each user the cart is cleared by checkout only after a         *)
(* payment-settled notification that was preceded by an accepted           *)
(* pre-checkout, itself preceded by an invoice issued on a non-empty cart. *)
(***************************************************************************)
C23_CheckoutOrder ==
    [][last'.op = "successful_payment"
          => /\ checkout[last'.user].invoice_issued
             /\ checkout[last'.user].validated
             /\ checkout[last'.user].settled]_vars

(***************************************************************************)
(* Conversations: /search, the start_search and start_search_in_category   *)
(* buttons, /recommendations and the text messages.  An update goes to the *)
(* first registered handler that accepts it.  A ConversationHandler with   *)
(* per_message=True accepts callback queries only and keys its state by    *)
(* the message of the button; a handler that raises leaves the             *)
(* conversation state as it was.                                           *)
(***************************************************************************)
MessageIds == {1, 2}           \* the messages that carry a start-search button
SearchCategoryIds == {0, 10}   \* the categories of the start_search_in_category buttons
Texts == { << "1" >>, << "p", "r", "o" >>, << "z" >> }

WriteQueryText == "Write here your query:"
TellMeText == "Please tell me what you are looking for, and I will recommend some products:"
NoProductFoundText == "No product found"
SearchResultsText == "Search results:"
RecommendationsText == "Here there are some recommendations:"
NoRecommendationsText == "Sorry, I couldn't find any recommendations."

\* the waiting states a user has pending
Waiting(convs, u) ==
    {state \in {"search", "search_in_category"} :
        \E m \in MessageIds : <<u, m>> \in convs[state]}
    \cup (IF u \in convs.recommendations THEN {"recommendations"} ELSE {})

\* two products of category 0 and two of category 10
ConversationProducts ==
    _generate_demo_data([c \in 1 .. Len(categories) |->
                            IF c = 1 \/ c = Len(categories) THEN 2 ELSE 0])

\* the answers of the recommendation collaborator: a raised exception, a
\* timeout, a text that is no JSON, or a JSON object whose "products" key is
\* missing (None) or holds a list of entries that may lack "id" or "name"
Entries ==
    { [id |-> Some(1), name |-> Some("Product 1")],
      [id |-> None, name |-> Some("Product 1")],
      [id |-> Some(1), name |-> None] }

Responses ==
    { [kind |-> "exception"], [kind |-> "timeout"], [kind |-> "non_json"],
      [kind |-> "json", products |-> None],
      [kind |-> "json", products |-> Some(<<>>)] }
    \cup { [kind |-> "json", products |-> Some(<<entry>>)] : entry \in Entries }
    \cup { [kind |-> "json", products |-> Some(<<first, second>>)] :
             first \in Entries, second \in Entries }

\* what the try block of _generate_recommendations returns: None (<<>>) after
\* any exception, json.loads and the missing key included, else the list as
\* it came
_generate_recommendations(response) ==
    IF response.kind # "json" THEN None
    ELSE IF response.products = None THEN None
    ELSE response.products

\* the reply loop of _handle_request_for_product_recommendations
handle_request_for_product_recommendations(response) ==
    LET recommendations == _generate_recommendations(response)
    IN IF recommendations = None \/ recommendations = Some(<<>>)
       THEN [kind |-> "apology", reply |-> Some(NoRecommendationsText)]
       ELSE IF \E i \in 1 .. Len(recommendations[1]) :
                  recommendations[1][i].id = None \/ recommendations[1][i].name = None
            THEN [kind |-> "KeyError", reply |-> None]
            ELSE [kind |-> "recommendations", reply |-> Some(RecommendationsText)]

\* _handle_search_products: browse_products(q=text, category_id=...), first
\* page of 5
handle_search_products(prods, text, category_id) ==
    LET page == browse_products(prods, Some(text), category_id, 1, Some(5))
    IN IF page.raised # "none" THEN [kind |-> page.raised, reply |-> None]
       ELSE IF Len(page.products) = 0
            THEN [kind |-> "search", reply |-> Some(NoProductFoundText),
                  products |-> <<>>]
            ELSE [kind |-> "search", reply |-> Some(SearchResultsText),
                  products |-> page.products]

InitConversation ==
    /\ user_items = [u \in {} |-> <<>>]
    /\ products = ConversationProducts
    /\ running = None
    /\ chat = [u \in Users |-> "none"]
    /\ last = Op("init", 0, 0, None, 0, RetNone, <<>>, <<>>)
    /\ net = [k \in Users \X LineKeys |-> Some(0)]
    /\ user_data = [u \in Users |-> NoUserData]
    /\ invoice = [u \in Users |-> None]
    /\ conversations = NoConversations
    /\ checkout = [u \in Users |-> NoCheckout]
    /\ tasks = <<>>
    /\ buttons = {}
    /\ handles = <<>>
    /\ requested = NotFollowed

\* /search: a CommandHandler outside every ConversationHandler, the state the
\* callback returns is dropped
SearchCommand(u) ==
    /\ Idle
    /\ chat' = [chat EXCEPT ![u] = WriteQueryText]
    /\ last' = [op |-> "search_command", user |-> u,
                waiting_before |-> Waiting(conversations, u)]
    /\ UNCHANGED <<user_items, products, running, net, user_data, invoice,
                   session_vars>>

\* callback start_search pressed on message m: the entry point of the search
\* conversation; when the key is in the waiting state already no handler
\* accepts the update
StartSearch(u, m) ==
    /\ Idle
    /\ IF <<u, m>> \in conversations.search
       THEN /\ last' = [op |-> "start_search", user |-> u, message |-> m,
                        handled |-> FALSE,
                        waiting_before |-> Waiting(conversations, u)]
            /\ UNCHANGED <<chat, conversations>>
       ELSE /\ chat' = [chat EXCEPT ![u] = WriteQueryText]
            /\ conversations' = [conversations EXCEPT !.search = @ \cup {<<u, m>>}]
            /\ last' = [op |-> "start_search", user |-> u, message |-> m,
                        handled |-> TRUE,
                        waiting_before |-> Waiting(conversations, u)]
    /\ UNCHANGED <<user_items, products, running, net, user_data, invoice,
                   checkout, tasks, buttons, handles,
                   requested>>

\* callback start_search_in_category:<category_id> pressed on message m
StartSearchInCategory(u, m, category_id) ==
    /\ Idle
    /\ IF <<u, m>> \in conversations.search_in_category
       THEN /\ last' = [op |-> "start_search_in_category", user |-> u,
                        message |-> m, category_id |-> category_id,
                        handled |-> FALSE,
                        waiting_before |-> Waiting(conversations, u)]
            /\ UNCHANGED <<chat, conversations, user_data>>
       ELSE /\ user_data' = [user_data EXCEPT ![u].category_id = Some(category_id)]
            /\ chat' = [chat EXCEPT ![u] = WriteQueryText]
            /\ conversations' =
                  [conversations EXCEPT !.search_in_category = @ \cup {<<u, m>>}]
            /\ last' = [op |-> "start_search_in_category", user |-> u,
                        message |-> m, category_id |-> category_id,
                        handled |-> TRUE,
                        waiting_before |-> Waiting(conversations, u)]
    /\ UNCHANGED <<user_items, products, running, net, invoice, checkout, tasks, buttons, handles,
                   requested>>

\* /recommendations: the entry point of the recommendation conversation; in
\* the waiting state no handler accepts the command
RecommendationsCommand(u) ==
    /\ Idle
    /\ IF u \in conversations.recommendations
       THEN /\ last' = [op |-> "recommendations_command", user |-> u,
                        handled |-> FALSE,
                        waiting_before |-> Waiting(conversations, u)]
            /\ UNCHANGED <<chat, conversations>>
       ELSE /\ chat' = [chat EXCEPT ![u] = TellMeText]
            /\ conversations' =
                  [conversations EXCEPT !.recommendations = @ \cup {u}]
            /\ last' = [op |-> "recommendations_command", user |-> u,
                        handled |-> TRUE,
                        waiting_before |-> Waiting(conversations, u)]
    /\ UNCHANGED <<user_items, products, running, net, user_data, invoice,
                   checkout, tasks, buttons, handles,
                   requested>>

\* the handler that accepts a text message of u: the two search conversations
\* are per_message and skip every update that is no callback query, the
\* recommendation conversation accepts it in its waiting state, and the last
\* registered MessageHandler takes what is left
text_handler(convs, u) ==
    IF u \in convs.recommendations
    THEN "_handle_request_for_product_recommendations"
    ELSE "_handle_user_text"

\* the collaborator is asked by the recommendation handler only
Unasked == [kind |-> "unasked"]

ResponsesFor(convs, u) ==
    IF text_handler(convs, u) = "_handle_request_for_product_recommendations"
    THEN Responses ELSE {Unasked}

\* a text message (no command) of u; response is what the recommendation
\* collaborator answers if it is asked
TextMessage(u, text, response) ==
    LET handler == text_handler(conversations, u)
        r == IF handler = "_handle_request_for_product_recommendations"
             THEN handle_request_for_product_recommendations(response)
             ELSE handle_search_products(products, text, None)
    IN /\ Idle
       /\ response \in ResponsesFor(conversations, u)
       /\ chat' = IF r.reply # None THEN [chat EXCEPT ![u] = r.reply[1]] ELSE chat
       /\ conversations' =
             IF handler = "_handle_request_for_product_recommendations"
                /\ r.kind # "KeyError"
             THEN [conversations EXCEPT !.recommendations = @ \ {u}]
             ELSE conversations
       /\ last' = [op |-> "text", user |-> u, text |-> text, handler |-> handler,
                   response |-> response,
                   ret |-> r, chat_before |-> chat[u],
                   waiting_before |-> Waiting(conversations, u)]
       /\ UNCHANGED <<user_items, products, running, net, user_data, invoice,
                      checkout, tasks, buttons, handles,
                   requested>>

NextConversation ==
    \/ \E u \in Users : SearchCommand(u)
    \/ \E u \in Users, m \in MessageIds : StartSearch(u, m)
    \/ \E u \in Users, m \in MessageIds, category_id \in SearchCategoryIds :
          StartSearchInCategory(u, m, category_id)
    \/ \E u \in Users : RecommendationsCommand(u)
    \/ \E u \in Users, text \in Texts, response \in Responses \cup {Unasked} :
          TextMessage(u, text, response)

SpecConversation == InitConversation /\ [][NextConversation]_vars

ProductsShown(ret) == { ret.products[i] : i \in 1 .. Len(ret.products) }

\* C24: a text message handled while exactly one waiting state is pending is
\* consumed as the payload of that state (a general search, a search of the
\* stored category, a recommendation request) and leaves the user with no
\* waiting state pending; handled with no waiting state pending it is a
\* general search.
C24_WaitingStateConsumesOneText ==
    LastIs("text") =>
       /\ last.waiting_before = {"search"} =>
             /\ last.ret = handle_search_products(products, last.text, None)
             /\ Waiting(conversations, last.user) = {}
       /\ last.waiting_before = {"search_in_category"} =>
             /\ last.ret = handle_search_products(products, last.text,
                                                  user_data[last.user].category_id)
             /\ Waiting(conversations, last.user) = {}
       /\ last.waiting_before = {"recommendations"} =>
             /\ last.handler = "_handle_request_for_product_recommendations"
             /\ Waiting(conversations, last.user) = {}
       /\ last.waiting_before = {} =>
             last.ret = handle_search_products(products, last.text, None)

\* C25: a /search command or a press of the start_search button handled
\* while the user has no waiting state pending leaves the user awaiting a
\* search query, and a text message handled in that state alone is answered
\* with the search of its text.
C25_StartSearchEntersWaitingState ==
    /\ (LastIs("search_command") \/ LastIs("start_search"))
       /\ last.waiting_before = {}
          => "search" \in Waiting(conversations, last.user)
    /\ LastIs("text") /\ last.waiting_before = {"search"}
          => last.ret = handle_search_products(products, last.text, None)

\* C26: a text message handled while only a search in a category is pending
\* is answered with products of the stored category alone.
C26_SearchScopedToCategory ==
    LastIs("text") /\ last.waiting_before = {"search_in_category"}
       => /\ last.ret.kind = "search"
          /\ \A product \in ProductsShown(last.ret) :
                Some(product.category_id) = user_data[last.user].category_id

\* C28: whatever the recommendation collaborator answers, the text message
\* that carried the request is answered with recommendations or with the
\* apology, the handler does not raise, and the user no longer awaits a
\* recommendation request.
C28_RecommendationAlwaysAnswered ==
    LastIs("text") /\ last.handler = "_handle_request_for_product_recommendations"
       => /\ last.ret.kind \in {"recommendations", "apology"}
          /\ chat[last.user] \in {RecommendationsText, NoRecommendationsText}
          /\ "recommendations" \notin Waiting(conversations, last.user)

(***************************************************************************)
(* Two users: the carts live in one dictionary keyed by the telegram user  *)
(* id, user_data and the conversation keys are per user.                   *)
(***************************************************************************)
TwoUsers == {1, 2}
TwoUsersTexts == { << "1" >> }

InitTwoUsers ==
    /\ user_items = [u \in {} |-> <<>>]
    /\ products = ConversationProducts
    /\ running = None
    /\ chat = [u \in TwoUsers |-> "none"]
    /\ last = Op("init", 0, 0, None, 0, RetNone, <<>>, <<>>)
    /\ net = [k \in {} |-> None]
    /\ user_data = [u \in TwoUsers |-> NoUserData]
    /\ invoice = [u \in TwoUsers |-> None]
    /\ conversations = NoConversations
    /\ checkout = [u \in TwoUsers |-> NoCheckout]
    /\ tasks = <<>>
    /\ buttons = {}
    /\ handles = <<>>
    /\ requested = NotFollowed

\* user 1 adds, removes, clears, searches, checks out and pays; user 2 fills
\* a cart, stores a category id and opens a recommendation request
NextTwoUsers ==
    \/ \E u \in TwoUsers : AddProduct(u, 0, None, 1)
    \/ RemoveProduct(1, 0, None, 1)
    \/ RemoveItem(1, 0, None)
    \/ Clear(1)
    \/ StartSearchInCategory(1, 1, 0)
    \/ StartSearchInCategory(2, 1, 10)
    \/ RecommendationsCommand(2)
    \/ \E text \in TwoUsersTexts : TextMessage(1, text, Unasked)
    \/ ShowCheckout(1)
    \/ PayNow(1)
    \/ PreCheckoutQuery(1, 1000)
    \/ SuccessfulPaymentReply(1)
    \/ SuccessfulPaymentClear(1)

SpecTwoUsers == InitTwoUsers /\ [][NextTwoUsers]_vars

\* the conversation keys of user u
KeysOf(convs, u) ==
    [search |-> {key \in convs.search : key[1] = u},
     search_in_category |-> {key \in convs.search_in_category : key[1] = u},
     recommendations |-> convs.recommendations \cap {u}]

\* C27: a step taken for one user leaves the cart lines, the conversation
\* keys, the stored category id and the cached invoice amounts of every other
\* user as they were.
C27_NoLeakAcrossUsers ==
    [][\A b \in TwoUsers :
          b # last'.user =>
             /\ (IF b \in DOMAIN user_items' THEN user_items'[b] ELSE <<>>) = ItemsOf(b)
             /\ KeysOf(conversations', b) = KeysOf(conversations, b)
             /\ user_data'[b] = user_data[b]
             /\ invoice'[b] = invoice[b]]_vars

\* user 1 has just removed its only line while user 2 holds a line, a stored
\* category id and a pending recommendation request
C27_Witness ==
    /\ LastIs("remove_item") /\ last.user = 1 /\ Len(last.before) = 1
    /\ user_data[1].category_id = Some(0)
    /\ ItemsOf(1) = <<>>
    /\ Len(ItemsOf(2)) = 1
    /\ user_data[2].category_id = Some(10)
    /\ 2 \in conversations.recommendations
    /\ 1 \notin conversations.recommendations

(***************************************************************************)
(* Two button presses of one user that arrive close together: tasks holds  *)
(* the cart operations of the updates that have arrived, each with its     *)
(* position.  add_product awaits get_product between its lookup and its    *)
(* append; remove_product, remove_item and clear hold no await.  The       *)
(* application is built without concurrent_updates, so the handler of an   *)
(* update starts when the handler of the update before it has returned.    *)
(***************************************************************************)
MaxTasks == 2

CartOps == {"add_product", "remove_product", "remove_item", "clear"}

Task(op, u, product_id, variant_id, quantity) ==
    [op |-> op, user |-> u, product_id |-> product_id, variant_id |-> variant_id,
     quantity |-> quantity, pc |-> "queued"]

\* an application that hands every update to a task of its own
concurrent_updates_enabled == TRUE

\* Application.builder().token(token).post_init(...).build()
concurrent_updates == FALSE

AllDone(ts) == \A i \in 1 .. Len(ts) : ts[i].pc = "done"

\* the operation of task t run from its call to its return
run(items, prods, t) ==
    CASE t.op = "add_product" ->
            add_product(items, prods, t.product_id, t.variant_id, t.quantity).items
      [] t.op = "remove_product" ->
            remove_product(items, t.product_id, t.variant_id, t.quantity).items
      [] t.op = "remove_item" -> remove_item(items, t.product_id, t.variant_id).items
      [] t.op = "clear" -> clear(items).items

\* the quantity the adds not yet done will bring
PendingQuantity(ts) ==
    LET RECURSIVE sum(_)
        sum(i) == IF i = 0 THEN 0
                  ELSE sum(i - 1) + (IF ts[i].op = "add_product" /\ ts[i].pc # "done"
                                     THEN ts[i].quantity ELSE 0)
    IN sum(Len(ts))

\* an update with a cart operation of u arrives
Arrive(u, op, product_id, variant_id, quantity) ==
    LET store == get_cart(user_items, u)
        restart == Len(tasks) = MaxTasks /\ AllDone(tasks)
        pending == IF restart THEN <<>> ELSE tasks
    IN /\ Idle
       /\ restart \/ Len(tasks) < MaxTasks
       /\ op = "add_product" =>
             SumQuantity(store[u]) + PendingQuantity(pending) + quantity <= MaxQty
       /\ tasks' = Append(pending, Task(op, u, product_id, variant_id, quantity))
       /\ last' = IF pending = <<>>
                  THEN [op |-> "tasks", user |-> u, before |-> store[u],
                        together |-> FALSE, suspended |-> FALSE]
                  ELSE [last EXCEPT !.together = @ \/ ~AllDone(pending)]
       /\ UNCHANGED <<user_items, products, running, chat, net, user_data, invoice,
                      conversations, checkout, buttons, handles,
                   requested>>

\* the handler of task i starts its operation and runs it to its first await
\* or to its end
Begin(i) ==
    LET t == tasks[i]
        store == get_cart(user_items, t.user)
    IN /\ Idle
       /\ i <= Len(tasks)
       /\ t.pc = "queued"
       /\ \A j \in 1 .. i - 1 : tasks[j].pc # "queued"
       /\ concurrent_updates \/ \A j \in 1 .. i - 1 : tasks[j].pc = "done"
       /\ IF t.op = "add_product"
             /\ _find_item_by_product_id(store[t.user], t.product_id, t.variant_id) = 0
          THEN /\ tasks' = [tasks EXCEPT ![i].pc = "get_product"]
               /\ user_items' = store
               /\ last' = [last EXCEPT !.suspended = TRUE]
          ELSE /\ tasks' = [tasks EXCEPT ![i].pc = "done"]
               /\ user_items' = [store EXCEPT ![t.user] = run(store[t.user], products, t)]
               /\ UNCHANGED last
       /\ UNCHANGED <<products, running, chat, net, user_data, invoice,
                      conversations, checkout, buttons, handles,
                   requested>>

\* add_product goes on after await self.ecommerce.get_product(product_id):
\* the line is appended to the list as it is now
Resume(i) ==
    LET t == tasks[i]
        store == get_cart(user_items, t.user)
    IN /\ Idle
       /\ i <= Len(tasks)
       /\ t.pc = "get_product"
       /\ tasks' = [tasks EXCEPT ![i].pc = "done"]
       /\ user_items' =
             IF get_product(products, t.product_id) = IndexError THEN store
             ELSE [store EXCEPT ![t.user] =
                      Append(@, NewLine(products, t.product_id, t.variant_id,
                                        t.quantity))]
       /\ UNCHANGED <<products, running, chat, last, net, user_data, invoice,
                      conversations, checkout, buttons, handles,
                   requested>>

NextTasks ==
    \/ \E u \in Users, op \in CartOps, k \in PricingKeys :
          Arrive(u, op, k[1], k[2], 1)
    \/ \E i \in 1 .. MaxTasks : Begin(i)
    \/ \E i \in 1 .. MaxTasks : Resume(i)

SpecTasks == Init /\ [][NextTasks]_vars

NoDuplicateLine(items) ==
    \A i, j \in 1 .. Len(items) :
        items[i].product_id = items[j].product_id
        /\ items[i].variant_id = items[j].variant_id => i = j

MaxTokens == 3

EDIT_PREVIOUS_MESSAGE == << "0" >>
NEW_MESSAGE == << "1" >>

CallbackNames == { "add_to_cart", "add_one_product_to_cart", "category" }

\* the tokens a payload is made of: a number and a word
Tokens == { << "1" >>, << "x" >> }

TokenSeqs(n) == UNION { [1 .. len -> Tokens] : len \in 1 .. n }

\* f"{name}:{token}:{token}": the name is one element, the rest are characters
RECURSIVE Join(_)
Join(tokens) ==
    IF tokens = <<>> THEN <<>> ELSE << ":" >> \o Head(tokens) \o Join(Tail(tokens))

CallbackData(name, tokens) == << name >> \o Join(tokens)

\* data.split(":")
RECURSIVE split(_)
split(data) ==
    IF \A i \in 1 .. Len(data) : data[i] # ":" THEN << data >>
    ELSE LET at == CHOOSE i \in 1 .. Len(data) :
                      data[i] = ":" /\ \A j \in 1 .. i - 1 : data[j] # ":"
         IN << SubSeq(data, 1, at - 1) >> \o split(SubSeq(data, at + 1, Len(data)))

\* query.data.split(":")[1:]
_get_payload(data) == Tail(split(data))

DigitValue(char) == (CHOOSE d \in 1 .. Len(DecimalDigits) : DecimalDigits[d] = char) - 1

\* int(token) of a token without sign and blanks
RECURSIVE int(_)
int(token) ==
    IF token = <<>> \/ \E i \in 1 .. Len(token) :
                          \A d \in 1 .. Len(DecimalDigits) : DecimalDigits[d] # token[i]
    THEN Raised("ValueError")
    ELSE IF Len(token) = 1 THEN [raised |-> "none", value |-> DigitValue(token[1])]
    ELSE [raised |-> "none",
          value |-> 10 * int(SubSeq(token, 1, Len(token) - 1)).value
                    + DigitValue(token[Len(token)])]

\* one token is the product id, two are unpacked into product and variant id
product_id_variant_id(payload) ==
    IF Len(payload) = 1
    THEN IF int(payload[1]).raised # "none" THEN Raised("ValueError")
         ELSE [raised |-> "none", product_id |-> int(payload[1]).value,
               variant_id |-> None]
    ELSE IF Len(payload) # 2 THEN Raised("ValueError")
    ELSE IF int(payload[1]).raised # "none" \/ int(payload[2]).raised # "none"
         THEN Raised("ValueError")
         ELSE [raised |-> "none", product_id |-> int(payload[1]).value,
               variant_id |-> Some(int(payload[2]).value)]

_get_product_id_variant_id_from_data(data) == product_id_variant_id(Tail(split(data)))

\* the payload of add_to_cart: the edit flag, then the ids
add_to_cart_payload(data) ==
    LET payload == _get_payload(data)
    IN IF Len(payload) = 0 THEN Raised("IndexError")
       ELSE product_id_variant_id(Tail(payload))

\* the payload of category: the message flag, the category id and, if there are
\* three tokens, the page number
show_content_payload(data) ==
    LET payload == _get_payload(data)
    IN IF Len(payload) # 2 /\ Len(payload) # 3 THEN Raised("UnboundLocalError")
       ELSE IF Len(payload) = 3 /\ int(payload[3]).raised # "none"
            THEN Raised("ValueError")
       ELSE IF int(payload[2]).raised # "none" THEN Raised("ValueError")
       ELSE [raised |-> "none", use_new_message |-> payload[1] = NEW_MESSAGE,
             category_id |-> int(payload[2]).value,
             page_num |-> IF Len(payload) = 3 THEN int(payload[3]).value ELSE 1]

ProductsInCategoryText == "Products in category {category_name}:"
NoProductsInCategoryText == "No products found in this category."

\* what a handler that raised leaves behind
CallbackRaised(u, handler, data, exception) ==
    /\ last' = [op |-> "callback", user |-> u, handler |-> handler, data |-> data,
                ret |-> Raised(exception), before |-> ItemsOf(u),
                conversations_before |-> conversations]
    /\ UNCHANGED <<user_items, products, running, chat, net, user_data, invoice,
                   session_vars>>

\* _add_to_cart from query.data on
AddToCartCallback(u, data) ==
    LET p == add_to_cart_payload(data)
    IN IF p.raised # "none" THEN Idle /\ CallbackRaised(u, "_add_to_cart", data, p.raised)
       ELSE AddToCart(u, p.product_id, p.variant_id)

\* _add_one_product_to_cart from query.data on
AddOneProductToCartCallback(u, data) ==
    LET p == _get_product_id_variant_id_from_data(data)
    IN IF p.raised # "none"
       THEN Idle /\ CallbackRaised(u, "_add_one_product_to_cart", data, p.raised)
       ELSE AddOneProductToCart(u, p.product_id, p.variant_id)

\* _show_content_in_category
ShowContentInCategory(u, data) ==
    LET p == show_content_payload(data)
        category == get_category(p.category_id)
        page == browse_products(products, None, Some(p.category_id), p.page_num, Some(5))
    IN /\ Idle
       /\ IF p.raised # "none"
          THEN CallbackRaised(u, "_show_content_in_category", data, p.raised)
          ELSE IF category = IndexError
          THEN CallbackRaised(u, "_show_content_in_category", data, "IndexError")
          ELSE /\ user_items' = get_cart(user_items, u)
               /\ IF page.raised # "none"
                  THEN /\ last' = [op |-> "show_content_in_category", user |-> u,
                                   data |-> data, ret |-> Raised(page.raised)]
                       /\ UNCHANGED chat
                  ELSE /\ chat' = [chat EXCEPT ![u] =
                                      IF Len(page.products) # 0
                                      THEN ProductsInCategoryText
                                      ELSE NoProductsInCategoryText]
                       /\ last' = [op |-> "show_content_in_category", user |-> u,
                                   data |-> data,
                                   ret |-> [raised |-> "none",
                                            use_new_message |-> p.use_new_message,
                                            category_name |-> category.name,
                                            page |-> page]]
               /\ UNCHANGED <<products, running, net, user_data, invoice, session_vars>>

NextCallbacks ==
    \/ \E u \in Users, tokens \in TokenSeqs(MaxTokens) :
          AddToCartCallback(u, CallbackData("add_to_cart", tokens))
    \/ \E u \in Users, tokens \in TokenSeqs(MaxTokens) :
          AddOneProductToCartCallback(u, CallbackData("add_one_product_to_cart", tokens))
    \/ \E u \in Users, tokens \in TokenSeqs(MaxTokens) :
          ShowContentInCategory(u, CallbackData("category", tokens))
    \/ \E u \in Users, k \in PricingKeys : RemoveItem(u, k[1], k[2])
    \/ \E u \in Users : RecommendationsCommand(u)

SpecCallbacks == Init /\ [][NextCallbacks]_vars

Numeric(token) ==
    token # <<>> /\ \A i \in 1 .. Len(token) :
                       \E d \in 1 .. Len(DecimalDigits) : DecimalDigits[d] = token[i]

\* the payloads the buttons never carry: a token count the handler has no
\* case for, or a word where an id or a page number stands
Malformed(handler, payload) ==
    CASE handler = "_add_to_cart" ->
            \/ Len(payload) \notin {2, 3}
            \/ \E i \in 2 .. Len(payload) : ~Numeric(payload[i])
      [] handler = "_add_one_product_to_cart" ->
            \/ Len(payload) \notin {1, 2}
            \/ \E i \in 1 .. Len(payload) : ~Numeric(payload[i])
      [] handler = "_show_content_in_category" ->
            \/ Len(payload) \notin {2, 3}
            \/ \E i \in 2 .. Len(payload) : ~Numeric(payload[i])

\* C30: a callback whose payload is malformed ends without an exception
\* leaving the handler, and leaves the cart lines and the conversation state
\* of the user as they were.
C30_MalformedPayloadTolerated ==
    LastIs("callback") /\ Malformed(last.handler, Tail(split(last.data)))
       => /\ last.ret.raised = "none"
          /\ ItemsOf(last.user) = last.before
          /\ conversations = last.conversations_before

(***************************************************************************)
(* Navigation while an exchange is pending: the category pages, the        *)
(* product view, the cart buttons and the checkout are handlers outside    *)
(* the ConversationHandlers.                                               *)
(***************************************************************************)
\* one category with more products than a page of 5 holds
NavigationProducts ==
    _generate_demo_data([c \in 1 .. Len(categories) |->
                            IF c = 1 THEN MaxInCategory ELSE 0])

\* category:<flag>:0, and the previous/next buttons of its pages
NavigationPayloads ==
    { << << "0" >>, << "0" >> >>,
      << << "0" >>, << "0" >>, << "1" >> >>,
      << << "0" >>, << "0" >>, << "2" >> >> }

InitNavigation ==
    /\ user_items = [u \in {} |-> <<>>]
    /\ products = NavigationProducts
    /\ running = None
    /\ chat = [u \in Users |-> "none"]
    /\ last = Op("init", 0, 0, None, 0, RetNone, <<>>, <<>>)
    /\ net = [k \in {} |-> None]
    /\ user_data = [u \in Users |-> NoUserData]
    /\ invoice = [u \in Users |-> None]
    /\ conversations = NoConversations
    /\ checkout = [u \in Users |-> NoCheckout]
    /\ tasks = <<>>
    /\ buttons = {}
    /\ handles = <<>>
    /\ requested = NotFollowed

NextNavigation ==
    \/ \E u \in Users : SearchCommand(u)
    \/ \E u \in Users : StartSearch(u, 1)
    \/ \E u \in Users : StartSearchInCategory(u, 1, 0)
    \/ \E u \in Users : RecommendationsCommand(u)
    \/ \E u \in Users, tokens \in NavigationPayloads :
          ShowContentInCategory(u, CallbackData("category", tokens))
    \/ \E u \in Users, product_id \in {0, 5} : ShowProduct(u, product_id)
    \/ \E u \in Users : AddToCart(u, 0, None)
    \/ \E u \in Users : AddOneProductToCart(u, 0, None)
    \/ \E u \in Users : RemoveItem(u, 0, None)
    \/ \E u \in Users : ShowCheckout(u)
    \/ \E u \in Users : PayNow(u)

SpecNavigation == InitNavigation /\ [][NextNavigation]_vars

EntryOps == {"search_command", "start_search", "start_search_in_category",
             "recommendations_command", "text"}

\* C31: a step that handles neither a text message nor a conversation entry
\* action leaves the conversation state as it was, and while no text is sent
\* a waiting state that is pending stays pending.
C31_NavigationKeepsConversation ==
    [][/\ last'.op \notin EntryOps => conversations' = conversations
       /\ \A u \in Users : Waiting(conversations, u) \subseteq Waiting(conversations', u)]_vars

\* the second page of category 0 was just shown to a user with a line in the
\* cart who has all three exchanges pending
C31_Witness ==
    /\ LastIs("show_content_in_category") /\ last.ret.raised = "none"
    /\ last.ret.page.page_num = 2 /\ Len(last.ret.page.products) >= 1
    /\ Waiting(conversations, last.user) = {"search", "search_in_category", "recommendations"}
    /\ Len(ItemsOf(last.user)) = 1

(***************************************************************************)
(* The order of the lines                                                  *)
(***************************************************************************)
\* the (product_id, variant_id) pairs of the lines, in the order of the list
KeySeq(items) ==
    [i \in 1 .. Len(items) |-> <<items[i].product_id, items[i].variant_id>>]

MaxViews == 2

YourCartIsEmptyText == "Your cart is empty."
ProceedToCheckoutText == "Proceed to checkout?"
ItemRemovedCartEmptyText == "Item removed.\nCart is empty."
ItemRemovedText == "Item removed.\nTotal items: {num_products_in_cart}"
OneProductRemovedText ==
    "One product removed from cart: {item_name} ({item_quantity})\nTotal items: {num_products_in_cart}"
ItemRemovedFromCartEmptyText == "Item removed fromawait cart.\nCart is empty."
ItemRemovedFromCartText == "Item removed fromawait cart.\nTotal items: {num_products_in_cart}"
ItemNotFoundText == "Item not found inawait cart."

\* str(product_id), or str(product_id) + ":" + str(variant_id)
product_ref(product_id, variant_id) ==
    IF variant_id = None THEN << Digits(product_id) >>
    ELSE << Digits(product_id), Digits(variant_id[1]) >>

\* the callback data of the buttons of one line
create_cart_item_inline_keyboard(product_id, variant_id) ==
    [minus |-> CallbackData("remove_one_product_from_cart",
                            product_ref(product_id, variant_id)),
     plus |-> CallbackData("add_one_product_to_cart",
                           product_ref(product_id, variant_id)),
     remove |-> CallbackData("remove_cart_item", product_ref(product_id, variant_id))]

\* the message of the view-th cart view of u that shows the line of this key
CartItemMessage(u, view, product_id, variant_id) ==
    [user |-> u, view |-> view,
     keyboard |-> create_cart_item_inline_keyboard(product_id, variant_id)]

RetAttributeError == [kind |-> "AttributeError", item |-> None]

\* _show_cart: the lines are sent one by one; the text of a line with a
\* variant and no variant title cannot be built
ShowCart(u) ==
    LET store == get_cart(user_items, u)
        cart_items == get_items(store[u])
        bad == {i \in 1 .. Len(cart_items) :
                   cart_items[i].variant_id # None /\ cart_items[i].variant_title = None}
        sent == {i \in 1 .. Len(cart_items) : \A j \in bad : i < j}
        free == {view \in 1 .. MaxViews :
                    \A message \in buttons : ~(message.user = u /\ message.view = view)}
        view == CHOOSE v \in free : \A w \in free : v <= w
    IN /\ Idle
       /\ user_items' = store
       /\ IF Len(cart_items) = 0
          THEN /\ chat' = [chat EXCEPT ![u] = YourCartIsEmptyText]
               /\ UNCHANGED buttons
          ELSE /\ free # {}
               /\ buttons' = buttons \cup
                     { CartItemMessage(u, view, cart_items[i].product_id,
                                       cart_items[i].variant_id) : i \in sent }
               /\ chat' = IF bad = {} THEN [chat EXCEPT ![u] = ProceedToCheckoutText]
                          ELSE chat
       /\ last' = [op |-> "show_cart", user |-> u, before |-> store[u],
                   ret |-> IF bad = {} THEN RetNone ELSE RetTypeError]
       /\ UNCHANGED <<products, running, net, user_data, invoice, conversations,
                      checkout, tasks, handles,
                   requested>>

\* the "-" button of the message of (product_id, variant_id) in the view-th
\* cart view: _remove_one_product_from_cart
RemoveOneProductFromCart(u, view, product_id, variant_id) ==
    LET message == CartItemMessage(u, view, product_id, variant_id)
        p == _get_product_id_variant_id_from_data(message.keyboard.minus)
        store == get_cart(user_items, u)
        r == remove_product(store[u], p.product_id, p.variant_id, 1)
        num_products_in_cart == get_num_products(r.items)
        k == <<u, <<p.product_id, p.variant_id>>>>
    IN /\ Idle
       /\ message \in buttons
       /\ IF p.raised # "none"
          THEN CallbackRaised(u, "_remove_one_product_from_cart",
                              message.keyboard.minus, p.raised)
          ELSE /\ user_items' = [store EXCEPT ![u] = r.items]
               /\ net' = IF k \in DOMAIN net /\ net[k] # None
                         THEN [net EXCEPT ![k] = Some(Floor0(@[1] - 1))] ELSE net
               /\ IF r.ret = RetNone
                  THEN \* query.delete_message()
                       /\ buttons' = buttons \ {message}
                       /\ chat' = [chat EXCEPT ![u] =
                                      IF num_products_in_cart = 0
                                      THEN ItemRemovedCartEmptyText
                                      ELSE ItemRemovedText]
                       /\ last' = [button |-> <<product_id, variant_id>>]
                                  @@ Op("remove_one_product_from_cart", u, p.product_id,
                                        p.variant_id, 1, r.ret, store[u], r.items)
                  ELSE IF r.ret = RetFalse
                  THEN \* False.quantity
                       /\ last' = [button |-> <<product_id, variant_id>>]
                                  @@ Op("remove_one_product_from_cart", u, p.product_id,
                                        p.variant_id, 1, RetAttributeError, store[u],
                                        r.items)
                       /\ UNCHANGED <<chat, buttons>>
                  ELSE /\ chat' = [chat EXCEPT ![u] = OneProductRemovedText]
                       /\ last' = [button |-> <<product_id, variant_id>>]
                                  @@ Op("remove_one_product_from_cart", u, p.product_id,
                                        p.variant_id, 1, r.ret, store[u], r.items)
                       /\ UNCHANGED buttons
               /\ UNCHANGED <<products, running, user_data, invoice, conversations,
                              checkout, tasks, handles,
                   requested>>

\* the "Remove" button of that message: _remove_cart_item reads the token
\* after the name and calls remove_item(product_id)
RemoveCartItem(u, view, product_id, variant_id) ==
    LET message == CartItemMessage(u, view, product_id, variant_id)
        data == message.keyboard.remove
        p == int(split(data)[2])
        store == get_cart(user_items, u)
        r == remove_item(store[u], p.value, None)
        k == <<u, <<p.value, None>>>>
    IN /\ Idle
       /\ message \in buttons
       /\ IF p.raised # "none"
          THEN CallbackRaised(u, "_remove_cart_item", data, p.raised)
          ELSE /\ user_items' = [store EXCEPT ![u] = r.items]
               /\ net' = IF k \in DOMAIN net /\ net[k] # None
                         THEN [net EXCEPT ![k] = Some(0)] ELSE net
               /\ buttons' = buttons \ {message}
               /\ chat' = [chat EXCEPT ![u] =
                              IF r.ret = RetTrue
                              THEN IF get_num_products(r.items) = 0
                                   THEN ItemRemovedFromCartEmptyText
                                   ELSE ItemRemovedFromCartText
                              ELSE ItemNotFoundText]
               /\ last' = [button |-> <<product_id, variant_id>>]
                          @@ Op("remove_cart_item", u, p.value, None, 0, r.ret,
                                store[u], r.items)
               /\ UNCHANGED <<products, running, user_data, invoice, conversations,
                              checkout, tasks, handles,
                   requested>>

\* product 0 without variants and the variant 0 of product 1
ButtonKeys == { <<0, None>>, <<1, Some(0)>> }

InitCartButtons ==
    /\ user_items = [u \in {} |-> <<>>]
    /\ products = DemoProducts
    /\ running = None
    /\ chat = [u \in Users |-> "none"]
    /\ last = Op("init", 0, 0, None, 0, RetNone, <<>>, <<>>)
    /\ net = [k \in {} |-> None]
    /\ user_data = [u \in Users |-> NoUserData]
    /\ invoice = [u \in Users |-> None]
    /\ conversations = NoConversations
    /\ checkout = [u \in Users |-> NoCheckout]
    /\ tasks = <<>>
    /\ buttons = {}
    /\ handles = <<>>
    /\ requested = NotFollowed

NextCartButtons ==
    \/ \E u \in Users, k \in ButtonKeys : AddToCart(u, k[1], k[2])
    \/ \E u \in Users, k \in ButtonKeys : AddOneProductToCart(u, k[1], k[2])
    \/ \E u \in Users : ShowCart(u)
    \/ \E u \in Users, view \in 1 .. MaxViews, k \in ButtonKeys :
          RemoveOneProductFromCart(u, view, k[1], k[2])
    \/ \E u \in Users, view \in 1 .. MaxViews, k \in ButtonKeys :
          RemoveCartItem(u, view, k[1], k[2])
    \/ \E u \in Users : SuccessfulPaymentReply(u)
    \/ \E u \in Users : SuccessfulPaymentClear(u)

SpecCartButtons == InitCartButtons /\ [][NextCartButtons]_vars

\* C33: every line of every cart has a quantity of at least 1.
C33_QuantityAtLeastOne ==
    \A u \in DOMAIN user_items :
        \A i \in 1 .. Len(user_items[u]) : user_items[u][i].quantity >= 1

\* the "-" button was pressed on a line of quantity 1, and the line is gone
C33_Witness ==
    /\ LastIs("remove_one_product_from_cart") /\ last.ret = RetNone
    /\ \E i \in Lines(last.before, last.product_id, last.variant_id) :
          last.before[i].quantity = 1
    /\ Lines(ItemsOf(last.user), last.product_id, last.variant_id) = {}
    /\ Len(ItemsOf(last.user)) = 1

(***************************************************************************)
(* The pages of a search                                                   *)
(***************************************************************************)
\* the products of the pages 1 .. n of a search, one page after the other
RECURSIVE PagesUpTo(_, _, _, _, _)
PagesUpTo(prods, q, category_id, page_size, n) ==
    IF n = 0 THEN <<>>
    ELSE PagesUpTo(prods, q, category_id, page_size, n - 1)
            \o browse_products(prods, q, category_id, n, page_size).products

\* C34: for a page_size >= 1 and a category of the catalog (or none), the
\* pages 1, 2, 3, ... of a search put one after the other are the products
\* that pass the category and the query filter, in catalog order, each once;
\* every page reports the length of that list as its total, and the call
\* repeated with the same arguments returns the same page.
C34_PagesPartitionTheResult ==
    (/\ LastIs("browse_products")
     /\ last.page_size \notin {None, Some(0)}
     /\ last.category_id # None => IsCategory(last.category_id[1]))
       => LET filtered == FilteredSet(products, last.q, last.category_id)
          IN /\ PagesUpTo(products, last.q, last.category_id, last.page_size,
                          Len(filtered) + 1) = filtered
             /\ \A n \in 1 .. Len(filtered) + 1 :
                   browse_products(products, last.q, last.category_id, n,
                                   last.page_size).total = Len(filtered)
             /\ last.page = browse_products(products, last.q, last.category_id,
                                            last.page_num, last.page_size)

\* the second page of 5 of a search in a category that the query narrows:
\* the page is the last one and is not full
C34_Witness ==
    /\ LastIs("browse_products")
    /\ last.page_size = Some(5) /\ last.page_num = 2
    /\ last.q # None /\ last.category_id = Some(0)
    /\ Len(last.page.products) \in 1 .. 4
    /\ last.page.total = 5 + Len(last.page.products)
    /\ last.page.total < Len(FilteredSet(products, None, None))

(***************************************************************************)
(* C35: every pre-checkout query is answered, with an acceptance or with a *)
(* price-mismatch rejection, also when no invoice amounts are cached for   *)
(* the user; no query is left unanswered by a failure inside the handler.  *)
(***************************************************************************)
C35_EveryQueryAnswered ==
    LastIs("pre_checkout_query") =>
        \/ last.ret.kind = "ok"
        \/ last.ret.kind = "Price mismatch"

(***************************************************************************)
(* The cart objects.  get_cart(u) builds a ShoppingCartDemo whose _items   *)
(* names the list stored in the class dictionary user_items under u; the   *)
(* calls of an object read and change the list its _items names; clear     *)
(* binds _items to a new empty list, which no other object names           *)
(***************************************************************************)
MaxHandles == 2   \* largest number of cart objects alive together

\* the object ShoppingCartDemo(ecommerce, u) after __init__: own holds the
\* list of _items once it is no longer the list stored in user_items
Handle(u) == [user |-> u, stored |-> TRUE, own |-> <<>>]

\* the list self._items of the h-th object
ItemsThrough(h) ==
    IF handles[h].stored THEN ItemsOf(handles[h].user) ELSE handles[h].own

\* the lists after a call through the h-th object left items in its _items
StoreAfter(h, items) ==
    IF handles[h].stored THEN [user_items EXCEPT ![handles[h].user] = items]
    ELSE user_items

HandlesAfter(h, items) ==
    IF handles[h].stored THEN handles ELSE [handles EXCEPT ![h].own = items]

GetCart(u) ==
    LET store == get_cart(user_items, u)
    IN /\ Idle
       /\ Len(handles) < MaxHandles
       /\ user_items' = store
       /\ handles' = Append(handles, Handle(u))
       /\ last' = [handle |-> Len(handles) + 1]
                     @@ Op("get_cart", u, 0, None, 0, RetNone, store[u], store[u])
       /\ UNCHANGED <<products, running, chat, net, user_data, invoice,
                      conversations, checkout, tasks, buttons,
                   requested>>

HandleAddProduct(h, product_id, variant_id, quantity) ==
    /\ Idle
    /\ h <= Len(handles)
    /\ LET r == add_product(ItemsThrough(h), products, product_id, variant_id,
                            quantity)
       IN /\ Len(r.items) <= MaxLines
          /\ \A i \in 1 .. Len(r.items) : r.items[i].quantity <= MaxQty
          /\ user_items' = StoreAfter(h, r.items)
          /\ handles' = HandlesAfter(h, r.items)
          /\ last' = [handle |-> h]
                        @@ Op("add_product", handles[h].user, product_id, variant_id,
                              quantity, r.ret, ItemsThrough(h), r.items)
    /\ UNCHANGED <<products, running, chat, net, user_data, invoice,
                   conversations, checkout, tasks, buttons,
                   requested>>

HandleRemoveProduct(h, product_id, variant_id, quantity) ==
    /\ Idle
    /\ h <= Len(handles)
    /\ LET r == remove_product(ItemsThrough(h), product_id, variant_id, quantity)
       IN /\ user_items' = StoreAfter(h, r.items)
          /\ handles' = HandlesAfter(h, r.items)
          /\ last' = [handle |-> h]
                        @@ Op("remove_product", handles[h].user, product_id,
                              variant_id, quantity, r.ret, ItemsThrough(h), r.items)
    /\ UNCHANGED <<products, running, chat, net, user_data, invoice,
                   conversations, checkout, tasks, buttons,
                   requested>>

HandleRemoveItem(h, product_id, variant_id) ==
    /\ Idle
    /\ h <= Len(handles)
    /\ LET r == remove_item(ItemsThrough(h), product_id, variant_id)
       IN /\ user_items' = StoreAfter(h, r.items)
          /\ handles' = HandlesAfter(h, r.items)
          /\ last' = [handle |-> h]
                        @@ Op("remove_item", handles[h].user, product_id,
                              variant_id, 0, r.ret, ItemsThrough(h), r.items)
    /\ UNCHANGED <<products, running, chat, net, user_data, invoice,
                   conversations, checkout, tasks, buttons,
                   requested>>

\* self._items = []: the list the object named before is left as it is
HandleClear(h) ==
    /\ Idle
    /\ h <= Len(handles)
    /\ LET r == clear(ItemsThrough(h))
       IN /\ user_items' = StoreAfter(h, r.items)
          /\ handles' = [handles EXCEPT ![h] =
                            [user |-> @.user, stored |-> FALSE, own |-> r.handle_items]]
          /\ last' = [handle |-> h]
                        @@ Op("clear", handles[h].user, 0, None, 0, RetNone,
                              ItemsThrough(h), r.handle_items)
    /\ UNCHANGED <<products, running, chat, net, user_data, invoice,
                   conversations, checkout, tasks, buttons,
                   requested>>

\* the calls are made for the line of product 0, with quantity 1, the
\* quantity of the handlers
NextHandles ==
    \/ \E u \in Users : GetCart(u)
    \/ \E h \in 1 .. MaxHandles : HandleAddProduct(h, 0, None, 1)
    \/ \E h \in 1 .. MaxHandles : HandleRemoveProduct(h, 0, None, 1)
    \/ \E h \in 1 .. MaxHandles : HandleRemoveItem(h, 0, None)
    \/ \E h \in 1 .. MaxHandles : HandleClear(h)

SpecHandles == InitCartButtons /\ [][NextHandles]_vars

(***************************************************************************)
(* C36: all the cart objects obtained with get_cart(u) for one user        *)
(* observe the same lines, the lines a later get_cart(u) observes: what    *)
(* add_product, remove_product, remove_item or clear changed through one   *)
(* object is seen through every other, also what was changed through an    *)
(* object after clear was called on it.                                    *)
(***************************************************************************)
C36_HandlesObserveTheSameLines ==
    \A h \in 1 .. Len(handles) : ItemsThrough(h) = ItemsOf(handles[h].user)

\* the lines of a cart that are not the line (product_id, variant_id)
OtherLines(items, product_id, variant_id) ==
    SelectSeq(items, LAMBDA item : ~ /\ item.product_id = product_id
                                     /\ item.variant_id = variant_id)

(***************************************************************************)
(* C37: the "Remove" button of a cart line removes the line (product_id,   *)
(* variant_id) the button was created for, also a line with a variant, and *)
(* no other line: afterwards that line is absent from the cart and the     *)
(* other lines are as they were.                                           *)
(***************************************************************************)
C37_RemoveButtonRemovesItsLine ==
    LastIs("remove_cart_item") =>
        /\ Lines(ItemsOf(last.user), last.button[1], last.button[2]) = {}
        /\ ItemsOf(last.user) = OtherLines(last.before, last.button[1], last.button[2])

(***************************************************************************)
(* C38: the "-" button of a cart line that is no longer in the cart (a     *)
(* button left from an earlier cart view) completes with a reply and       *)
(* leaves the cart unchanged; the handler does not fail while it builds    *)
(* the reply.                                                              *)
(***************************************************************************)
C38_StaleMinusButtonTolerated ==
    (/\ LastIs("remove_one_product_from_cart")
     /\ Lines(last.before, last.button[1], last.button[2]) = {})
        => /\ last.ret # RetAttributeError
           /\ ItemsOf(last.user) = last.before

(***************************************************************************)
(* C39: a user is in at most one waiting conversation state at a time:     *)
(* after any sequence of start_search, start_search_in_category and        *)
(* /recommendations with no text in between, one exchange is pending.      *)
(***************************************************************************)
C39_AtMostOneWaitingState ==
    \A u \in Users : Cardinality(Waiting(conversations, u)) <= 1

(***************************************************************************)
(* Two invoices: the carts pay_now was triggered for are followed, and the *)
(* pre-checkout queries carry the total of one of them; the cart holds the *)
(* line of product 0                                                       *)
(***************************************************************************)
InitInvoices ==
    /\ user_items = [u \in {} |-> <<>>]
    /\ products = DemoProducts
    /\ running = None
    /\ chat = [u \in Users |-> "none"]
    /\ last = Op("init", 0, 0, None, 0, RetNone, <<>>, <<>>)
    /\ net = [k \in {} |-> None]
    /\ user_data = [u \in Users |-> NoUserData]
    /\ invoice = [u \in Users |-> None]
    /\ conversations = NoConversations
    /\ checkout = [u \in Users |-> NoCheckout]
    /\ tasks = <<>>
    /\ buttons = {}
    /\ handles = <<>>
    /\ requested = [followed |-> TRUE, carts |-> <<>>]

NextInvoices ==
    \/ \E u \in Users : AddToCart(u, 0, None)
    \/ \E u \in Users : RemoveItem(u, 0, None)
    \/ \E u \in Users : PayNow(u)
    \/ \E u \in Users, total_amount \in TotalAmounts : PreCheckoutQuery(u, total_amount)

SpecInvoices == InitInvoices /\ [][NextInvoices]_vars

(***************************************************************************)
(* C40: when pay_now was triggered twice by a user with different cart     *)
(* contents, a pre-checkout query whose total_amount equals the amounts of *)
(* one of the two invoices is accepted: the second invoice does not make   *)
(* the first one be compared with the amounts of the second.               *)
(***************************************************************************)
C40_EachInvoiceValidatedAgainstItsOwnAmounts ==
    LastIs("pre_checkout_query") =>
        \A i, j \in 1 .. Len(requested.carts) :
            (/\ i < j
             /\ requested.carts[i].user = last.user
             /\ requested.carts[j].user = last.user
             /\ requested.carts[i].items # requested.carts[j].items
             /\ \/ last.total_amount = SumLineTotals(requested.carts[i].items)
                \/ last.total_amount = SumLineTotals(requested.carts[j].items))
                => last.ret.kind = "ok"

=============================================================================
